---------------------------- MODULE Spec2Model ----------------------------
(***************************************************************************)
(* A model of tasks-cli: the task store (tasks.ts, kept in src/index.ts),  *)
(* the bucket queries (queries.ts), the recurrence templates               *)
(* (recurring.ts) and the occurrence generator with the date utilities     *)
(* (generation.ts).                                                        *)
(*                                                                         *)
(* Representation.                                                         *)
(*  - A calendar date string 'YYYY-MM-DD' is its day number, the count of  *)
(*    days since 1970-01-01.  A JavaScript Date is an instant, counted in  *)
(*    hours since 1970-01-01T00:00Z (every zone offset of the model is a   *)
(*    whole number of hours).                                              *)
(*  - SQL NULL / JavaScript null is the empty sequence NULL; a present     *)
(*    scalar v is the one-element sequence <<v>>.                          *)
(*  - A stored tag string is the sequence of the pieces between its        *)
(*    commas: "" is <<"">>, "a,b" is <<"a","b">>; NULL is <<>>.            *)
(*  - created_at / updated_at / reminded_at hold wall-clock stamps that no *)
(*    modelled operation reads; they are left out.  completed_at is NULL   *)
(*    or the stamp Some("now"): only whether it is NULL is ever read.      *)
(***************************************************************************)
EXTENDS Integers, Sequences, FiniteSets, TLC

VARIABLES
    tasks,          \* table tasks: id -> row
    nextTaskId,     \* AUTOINCREMENT counter of tasks
    templates,      \* table recurring_templates: id -> row
    nextTemplateId, \* AUTOINCREMENT counter of recurring_templates
    today,          \* the current date in the configured timezone
    zone,           \* the local timezone of the process (what new Date(...) uses)
    last,           \* the last operation run: its name, arguments and result
    procs,          \* concurrent generator processes (used by SpecRace only)
    edits           \* how many task commands the user has issued (counted in Spec)

vars == <<tasks, nextTaskId, templates, nextTemplateId, today, zone, last, procs, edits>>

NULL == <<>>
Some(v) == <<v>>
Val(o) == o[1]

-----------------------------------------------------------------------------
(* Calendar: what the Date getters return for a local midnight.            *)

\* days since 1970-01-01 of the civil date y-m-d (proleptic Gregorian)
DaysFromCivil(y, m, d) ==
    LET yy  == IF m <= 2 THEN y - 1 ELSE y
        era == yy \div 400
        yoe == yy - era * 400
        mp  == IF m > 2 THEN m - 3 ELSE m + 9
        doy == (153 * mp + 2) \div 5 + d - 1
        doe == yoe * 365 + yoe \div 4 - yoe \div 100 + doy
    IN  era * 146097 + doe - 719468

\* the civil date [y, m, d] of a day number
CivilFromDays(n) ==
    LET z   == n + 719468
        era == z \div 146097
        doe == z - era * 146097
        yoe == (doe - doe \div 1460 + doe \div 36524 - doe \div 146096) \div 365
        doy == doe - (365 * yoe + yoe \div 4 - yoe \div 100)
        mp  == (5 * doy + 2) \div 153
        d   == doy - (153 * mp + 2) \div 5 + 1
        m   == IF mp < 10 THEN mp + 3 ELSE mp - 9
        y   == yoe + era * 400 + (IF m <= 2 THEN 1 ELSE 0)
    IN  [y |-> y, m |-> m, d |-> d]

getFullYear(n) == CivilFromDays(n).y
\* Date.getMonth() is zero-based
getMonth(n) == CivilFromDays(n).m - 1
getDate(n) == CivilFromDays(n).d
\* Date.getDay(): 0 = Sunday; 1970-01-01 was a Thursday
getDay(n) == (n + 4) % 7

-----------------------------------------------------------------------------
(* The process's local timezone.  new Date(s + "T00:00:00") reads s as a   *)
(* local wall-clock time; toISOString() prints the instant in UTC.         *)

HoursPerDay == 24

\* offset east of UTC, in hours, of the local midnight that starts date n
Offset(z, n) == z.base + (IF z.dst /\ n >= z.dstFrom THEN 1 ELSE 0)

\* new Date(date + "T00:00:00"): the instant of local midnight of a date
LocalMidnight(z, n) == n * HoursPerDay - Offset(z, n)

\* d.toISOString().split("T")[0]: the UTC date of an instant
toISODate(h) == h \div HoursPerDay


-----------------------------------------------------------------------------
(* PatternMatcher: generation.ts, dateMatchesPattern.                      *)

Abs(i) == IF i < 0 THEN 0 - i ELSE i

\* a % b === 0 in JavaScript for a >= 0: a % 0 is NaN, and the sign of b is ignored
RemIsZero(a, b) == b # 0 /\ a % Abs(b) = 0

\* JavaScript truthiness of a nullable number column (0 and null are falsy)
TruthyNum(o) == o # NULL /\ Val(o) # 0

\* JavaScript truthiness of a nullable string column ("" and null are falsy)
TruthyStr(o) == o # NULL /\ o # <<"">>

\* Day name to number mapping (0 = Sunday)
DAY_MAP ==
    [name \in {"sun", "sunday", "mon", "monday", "tue", "tuesday", "wed", "wednesday",
               "thu", "thursday", "fri", "friday", "sat", "saturday"} |->
        CASE name \in {"sun", "sunday"}    -> 0
          [] name \in {"mon", "monday"}    -> 1
          [] name \in {"tue", "tuesday"}   -> 2
          [] name \in {"wed", "wednesday"} -> 3
          [] name \in {"thu", "thursday"}  -> 4
          [] name \in {"fri", "friday"}    -> 5
          [] OTHER                         -> 6]

\* day.toLowerCase().trim() on the day names of the model
lowerTrim(day) ==
    CASE day = "Mon"  -> "mon"
      [] day = " wed" -> "wed"
      [] day = "FRI " -> "fri"
      [] OTHER        -> day

\* allowedDaysIncludes looking at the first listed day only
allowedDaysIncludes_first(recur_days, dayOfWeek) ==
    /\ recur_days # <<>>
    /\ lowerTrim(recur_days[1]) \in DOMAIN DAY_MAP
    /\ DAY_MAP[lowerTrim(recur_days[1])] = dayOfWeek

\* template.recur_days.split(",").map(day => DAY_MAP[...]).includes(dayOfWeek);
\* a name DAY_MAP does not know maps to undefined, which no weekday equals
allowedDaysIncludes(recur_days, dayOfWeek) ==
    \E i \in 1..Len(recur_days) :
        /\ lowerTrim(recur_days[i]) \in DOMAIN DAY_MAP
        /\ DAY_MAP[lowerTrim(recur_days[i])] = dayOfWeek

\* Math.floor((d.getTime() - startDate.getTime()) / (1000 * 60 * 60 * 24))
daysDiff(z, date, start) ==
    (LocalMidnight(z, date) - LocalMidnight(z, start)) \div HoursPerDay

\* Math.floor((d.getTime() - startDate.getTime()) / (1000 * 60 * 60 * 24 * 7))
weeksDiff(z, date, start) ==
    (LocalMidnight(z, date) - LocalMidnight(z, start)) \div (HoursPerDay * 7)

monthsDiff(date, start) ==
    (getFullYear(date) - getFullYear(start)) * 12 + (getMonth(date) - getMonth(start))

yearsDiff(date, start) == getFullYear(date) - getFullYear(start)

matchesDaily(z, date, t) ==
    RemIsZero(daysDiff(z, date, t.start_date), t.recur_interval)

matchesWeekly(z, date, t) ==
    /\ TruthyStr(t.recur_days) => allowedDaysIncludes(t.recur_days, getDay(date))
    /\ t.recur_interval > 1 =>
           RemIsZero(weeksDiff(z, date, t.start_date), t.recur_interval)

\* matchesMonthly rolling a target day the month lacks to the month's last day
matchesMonthly_rollForward(z, date, t) ==
    LET targetDay == IF TruthyNum(t.recur_day_of_month)
                     THEN Val(t.recur_day_of_month)
                     ELSE getDate(t.start_date)
    IN  /\ \/ getDate(date) = targetDay
           \/ getDate(date + 1) = 1 /\ getDate(date) < targetDay
        /\ t.recur_interval > 1 =>
               RemIsZero(monthsDiff(date, t.start_date), t.recur_interval)

matchesMonthly(z, date, t) ==
    LET targetDay == IF TruthyNum(t.recur_day_of_month)
                     THEN Val(t.recur_day_of_month)
                     ELSE getDate(t.start_date)
    IN  /\ getDate(date) = targetDay
        /\ t.recur_interval > 1 =>
               RemIsZero(monthsDiff(date, t.start_date), t.recur_interval)

\* matchesYearly taking 28 February for 29 February in a year without one
matchesYearly_feb28(z, date, t) ==
    /\ \/ /\ getMonth(date) = getMonth(t.start_date)
           /\ getDate(date) = getDate(t.start_date)
        \/ /\ getMonth(t.start_date) = 1 /\ getDate(t.start_date) = 29
           /\ getMonth(date) = 1 /\ getDate(date) = 28 /\ getDate(date + 1) = 1
    /\ t.recur_interval > 1 =>
           RemIsZero(yearsDiff(date, t.start_date), t.recur_interval)

matchesYearly(z, date, t) ==
    /\ getMonth(date) = getMonth(t.start_date)
    /\ getDate(date) = getDate(t.start_date)
    /\ t.recur_interval > 1 =>
           RemIsZero(yearsDiff(date, t.start_date), t.recur_interval)

dateMatchesPattern(z, date, t) ==
    IF LocalMidnight(z, date) < LocalMidnight(z, t.start_date) THEN FALSE
    ELSE IF t.end_date # NULL
            /\ LocalMidnight(z, date) > LocalMidnight(z, Val(t.end_date)) THEN FALSE
    ELSE CASE t.recur_type = "daily"   -> matchesDaily(z, date, t)
           [] t.recur_type = "weekly"  -> matchesWeekly(z, date, t)
           [] t.recur_type = "monthly" -> matchesMonthly(z, date, t)
           [] t.recur_type = "yearly"  -> matchesYearly(z, date, t)
           [] OTHER                    -> FALSE

-----------------------------------------------------------------------------
(* Tag strings: generation.ts (utils), parseTagsFromStorage and friends.   *)

\* String.toLowerCase on the tag pieces of the model
toLowerCase(t) == IF t = "Soon" THEN "soon" ELSE t

\* tags.join(","): an empty array gives the empty string
formatTagsForStorage(arr) == IF arr = <<>> THEN <<"">> ELSE arr

\* stored.split(",").filter(t => t.length > 0); null gives []
parseTagsFromStorage(stored) == SelectSeq(stored, LAMBDA t : t # "")

includes(arr, t) == \E i \in 1..Len(arr) : arr[i] = t

hasTag(tags, tag) == includes(parseTagsFromStorage(tags), toLowerCase(tag))

\* the tag pieces of the model whose text contains the pattern; SQLite's LIKE
\* ignores ASCII case
LikePieces(pat) ==
    CASE pat = "soon"    -> {"soon", "Soon", "soonish"}
      [] pat = "someday" -> {"someday"}
      [] OTHER           -> {}

\* tags LIKE '%pat%': NULL never matches; a pattern without a comma matches
\* inside one piece
like(tags, pat) == \E i \in 1..Len(tags) : tags[i] \in LikePieces(pat)


-----------------------------------------------------------------------------
(* Calendar utilities: generation.ts (utils), today / daysFromNow, and the *)
(* two getDateRange functions.  An invocation is taken to run at least an  *)
(* hour away from midnight, so daysFromNow(n) is n days after today().     *)

daysFromNow(n) == today + n

\* the dates lo, lo + 1, ..., hi in ascending order
DaysFrom(lo, hi) == [i \in 1..(IF hi >= lo THEN hi - lo + 1 ELSE 0) |-> lo + i - 1]

\* generation.ts getDateRange(startDate, endDate): current walks the local
\* midnights from startDate to endDate; each is pushed as its UTC date
getDateRange(z, startDate, endDate) ==
    LET walk == DaysFrom(startDate, endDate)
    IN  [i \in 1..Len(walk) |-> toISODate(LocalMidnight(z, walk[i]))]

-----------------------------------------------------------------------------
(* Text: generation.ts (utils), parseDate and parseTime.  A string the      *)
(* parsers read or print is the sequence of its characters.  A parsed date  *)
(* 'YYYY-MM-DD' is the record [y, m, d] of the numbers its three fields      *)
(* print, which need not name a day of the calendar.                        *)

Digits == <<"0", "1", "2", "3", "4", "5", "6", "7", "8", "9">>

\* the letters: the capital ones, and the small one of each
Letters ==
    [upper |-> <<"A", "B", "C", "D", "E", "F", "G", "H", "I", "J", "K", "L", "M",
                 "N", "O", "P", "Q", "R", "S", "T", "U", "V", "W", "X", "Y", "Z">>,
     lower |-> <<"a", "b", "c", "d", "e", "f", "g", "h", "i", "j", "k", "l", "m",
                 "n", "o", "p", "q", "r", "s", "t", "u", "v", "w", "x", "y", "z">>]

\* s matches \d+
AllDigits(s) == s # <<>> /\ \A i \in 1..Len(s) : \E k \in 1..10 : Digits[k] = s[i]

\* s matches \w+
AllWord(s) ==
    /\ s # <<>>
    /\ \A i \in 1..Len(s) :
           \/ \E k \in 1..10 : Digits[k] = s[i]
           \/ \E k \in 1..26 : Letters.upper[k] = s[i] \/ Letters.lower[k] = s[i]
           \/ s[i] = "_"

\* String.toLowerCase
lower(s) ==
    [i \in 1..Len(s) |->
        IF \E k \in 1..26 : Letters.upper[k] = s[i]
        THEN Letters.lower[CHOOSE k \in 1..26 : Letters.upper[k] = s[i]]
        ELSE s[i]]

\* String.trim (of the white space, the blank)
trim(s) ==
    IF \A i \in 1..Len(s) : s[i] = " " THEN <<>>
    ELSE LET first == CHOOSE i \in 1..Len(s) :
                          s[i] # " " /\ \A j \in 1..(i - 1) : s[j] = " "
             final == CHOOSE i \in 1..Len(s) :
                          s[i] # " " /\ \A j \in (i + 1)..Len(s) : s[j] = " "
         IN  SubSeq(s, first, final)

RECURSIVE parseInt(_)
\* parseInt(s, 10) of a string of digits
parseInt(s) ==
    IF s = <<>> THEN 0
    ELSE 10 * parseInt(SubSeq(s, 1, Len(s) - 1))
             + ((CHOOSE k \in 1..10 : Digits[k] = s[Len(s)]) - 1)

RECURSIVE toString(_)
\* Number.toString of a natural number
toString(n) ==
    IF n < 10 THEN <<Digits[n + 1]>>
    ELSE toString(n \div 10) \o <<Digits[(n % 10) + 1]>>

\* s.padStart(2, "0")
padStart(s) == IF Len(s) < 2 THEN [i \in 1..(2 - Len(s)) |-> "0"] \o s ELSE s

RECURSIVE split(_, _)
\* the pieces of s between the occurrences of the character c
split(s, c) ==
    IF \A i \in 1..Len(s) : s[i] # c THEN <<s>>
    ELSE LET i == CHOOSE j \in 1..Len(s) : s[j] = c /\ \A k \in 1..(j - 1) : s[k] # c
         IN  <<SubSeq(s, 1, i - 1)>> \o split(SubSeq(s, i + 1, Len(s)), c)

\* generation.ts parseTime(input): the string 'HH:MM', or null
parseTime(input) ==
    LET \* s.match(/^(\d{1,2}):(\d{2})$/): the two groups, or null
        match24(s) ==
            IF /\ Len(s) \in {4, 5}
               /\ s[Len(s) - 2] = ":"
               /\ AllDigits(SubSeq(s, 1, Len(s) - 3))
               /\ AllDigits(SubSeq(s, Len(s) - 1, Len(s)))
            THEN Some(<<SubSeq(s, 1, Len(s) - 3), SubSeq(s, Len(s) - 1, Len(s))>>)
            ELSE NULL
        \* s.match(/^(\d{1,2})(?::(\d{2}))?\s*(am|pm)$/): the three groups (the
        \* second is empty when it took no part), or null
        match12(s) ==
            LET n      == Len(s)
                period == SubSeq(s, n - 1, n)
                body   == SubSeq(s, 1, n - 2)
                \* \s*: the blanks before the period
                cut    == CHOOSE k \in 0..Len(body) :
                              /\ \A j \in (k + 1)..Len(body) : body[j] = " "
                              /\ k > 0 => body[k] # " "
                core   == SubSeq(body, 1, cut)
            IN  IF n < 3 \/ period \notin {<<"a", "m">>, <<"p", "m">>} THEN NULL
                ELSE IF Len(core) \in {1, 2} /\ AllDigits(core)
                THEN Some(<<core, <<>>, period>>)
                ELSE IF match24(core) # NULL
                THEN Some(<<Val(match24(core))[1], Val(match24(core))[2], period>>)
                ELSE NULL
        hour12(hour, period) ==
            IF period = <<"p", "m">> /\ hour # 12 THEN hour + 12
            ELSE IF period = <<"a", "m">> /\ hour = 12 THEN 0
            ELSE hour
    IN  IF match24(input) # NULL
        THEN Some(padStart(Val(match24(input))[1]) \o <<":">> \o Val(match24(input))[2])
        ELSE IF match12(lower(input)) # NULL
        THEN LET m == Val(match12(lower(input)))
             IN  Some(padStart(toString(hour12(parseInt(m[1]), m[3])))
                      \o <<":">> \o (IF m[2] = <<>> THEN <<"0", "0">> ELSE m[2]))
        ELSE NULL

\* generation.ts parseDate: dayNames, indexed as Date.getDay() + 1
dayNames ==
    << <<"s", "u", "n", "d", "a", "y">>,
       <<"m", "o", "n", "d", "a", "y">>,
       <<"t", "u", "e", "s", "d", "a", "y">>,
       <<"w", "e", "d", "n", "e", "s", "d", "a", "y">>,
       <<"t", "h", "u", "r", "s", "d", "a", "y">>,
       <<"f", "r", "i", "d", "a", "y">>,
       <<"s", "a", "t", "u", "r", "d", "a", "y">> >>

\* generation.ts parseDate: monthNames, each key with the month it stands for
monthNames ==
    { <<<<"j", "a", "n">>, 1>>, <<<<"j", "a", "n", "u", "a", "r", "y">>, 1>>,
      <<<<"f", "e", "b">>, 2>>, <<<<"f", "e", "b", "r", "u", "a", "r", "y">>, 2>>,
      <<<<"m", "a", "r">>, 3>>, <<<<"m", "a", "r", "c", "h">>, 3>>,
      <<<<"a", "p", "r">>, 4>>, <<<<"a", "p", "r", "i", "l">>, 4>>,
      <<<<"m", "a", "y">>, 5>>,
      <<<<"j", "u", "n">>, 6>>, <<<<"j", "u", "n", "e">>, 6>>,
      <<<<"j", "u", "l">>, 7>>, <<<<"j", "u", "l", "y">>, 7>>,
      <<<<"a", "u", "g">>, 8>>, <<<<"a", "u", "g", "u", "s", "t">>, 8>>,
      <<<<"s", "e", "p">>, 9>>, <<<<"s", "e", "p", "t", "e", "m", "b", "e", "r">>, 9>>,
      <<<<"o", "c", "t">>, 10>>, <<<<"o", "c", "t", "o", "b", "e", "r">>, 10>>,
      <<<<"n", "o", "v">>, 11>>, <<<<"n", "o", "v", "e", "m", "b", "e", "r">>, 11>>,
      <<<<"d", "e", "c">>, 12>>, <<<<"d", "e", "c", "e", "m", "b", "e", "r">>, 12>> }

\* generation.ts parseDate(input), called when the process's clock shows the
\* local date now: the date [y, m, d], or null
parseDate(input, now) ==
    LET low    == trim(lower(input))
        dated(n) == Some(CivilFromDays(n))
        \* the pieces of low that white space separates
        words  == SelectSeq(split(low, " "), LAMBDA w : w # <<>>)
        slash  == split(input, "/")
        \* dayNames.indexOf(w), as a set
        index(w) == {i \in 0..6 : dayNames[i + 1] = w}
        \* the days from the local weekday to weekday i, a week for none
        daysToAdd(i) ==
            IF i - getDay(now) <= 0 THEN i - getDay(now) + 7 ELSE i - getDay(now)
        year   == getFullYear(now)
        months(w) == {e \in monthNames : e[1] = w}
    IN  IF low = <<"t", "o", "d", "a", "y">> THEN dated(today)
        ELSE IF low = <<"t", "o", "m", "o", "r", "r", "o", "w">> THEN dated(today + 1)
        \* /^\+(\d+)([dw])$/
        ELSE IF /\ Len(low) >= 3
                /\ low[1] = "+"
                /\ low[Len(low)] \in {"d", "w"}
                /\ AllDigits(SubSeq(low, 2, Len(low) - 1))
        THEN LET num == parseInt(SubSeq(low, 2, Len(low) - 1))
             IN  dated(daysFromNow(IF low[Len(low)] = "w" THEN num * 7 ELSE num))
        ELSE IF index(low) # {}
        THEN dated(daysFromNow(daysToAdd(CHOOSE i \in index(low) : TRUE)))
        \* /^next\s+(\w+)$/
        ELSE IF /\ Len(words) = 2
                /\ words[1] = <<"n", "e", "x", "t">>
                /\ AllWord(words[2])
                /\ index(words[2]) # {}
        THEN dated(daysFromNow(daysToAdd(CHOOSE i \in index(words[2]) : TRUE) + 7))
        \* /^\d{4}-\d{2}-\d{2}$/, of the input as given
        ELSE IF /\ Len(input) = 10
                /\ input[5] = "-"
                /\ input[8] = "-"
                /\ AllDigits(SubSeq(input, 1, 4))
                /\ AllDigits(SubSeq(input, 6, 7))
                /\ AllDigits(SubSeq(input, 9, 10))
        THEN Some([y |-> parseInt(SubSeq(input, 1, 4)),
                   m |-> parseInt(SubSeq(input, 6, 7)),
                   d |-> parseInt(SubSeq(input, 9, 10))])
        \* /^(\d{1,2})\/(\d{1,2})(?:\/(\d{4}))?$/, of the input as given
        ELSE IF /\ Len(slash) \in {2, 3}
                /\ AllDigits(slash[1]) /\ Len(slash[1]) <= 2
                /\ AllDigits(slash[2]) /\ Len(slash[2]) <= 2
                /\ Len(slash) = 3 => AllDigits(slash[3]) /\ Len(slash[3]) = 4
        THEN Some([y |-> IF Len(slash) = 3 THEN parseInt(slash[3]) ELSE year,
                   m |-> parseInt(slash[1]),
                   d |-> parseInt(slash[2])])
        \* /^(\w+)\s+(\d{1,2})(?:\s+(\d{4}))?$/ with a key of monthNames
        ELSE IF /\ Len(words) \in {2, 3}
                /\ AllWord(words[1])
                /\ AllDigits(words[2]) /\ Len(words[2]) <= 2
                /\ Len(words) = 3 => AllDigits(words[3]) /\ Len(words[3]) = 4
                /\ months(words[1]) # {}
        THEN Some([y |-> IF Len(words) = 3 THEN parseInt(words[3]) ELSE year,
                   m |-> (CHOOSE e \in months(words[1]) : TRUE)[2],
                   d |-> parseInt(words[2])])
        ELSE NULL

-----------------------------------------------------------------------------
(* TaskStore rows: src/index.ts (tasks.ts).                                *)

\* a || null for an optional string or number input
OrNull(input, f) == IF f \in DOMAIN input THEN input[f] ELSE NULL

\* the row createTask inserts
createTaskRow(input) ==
    [ title        |-> input.title,
      description  |-> OrNull(input, "description"),
      due_date     |-> OrNull(input, "due_date"),
      due_time     |-> OrNull(input, "due_time"),
      tags         |-> IF "tags" \in DOMAIN input
                       THEN formatTagsForStorage(input.tags) ELSE NULL,
      project      |-> OrNull(input, "project"),
      priority     |-> IF "priority" \in DOMAIN input THEN input.priority ELSE 0,
      completed_at |-> NULL,
      recurring_id |-> NULL ]

\* the row updateTask leaves: every field the input defines is overwritten
updateTaskRow(row, input) ==
    [f \in DOMAIN row |->
        IF f \in DOMAIN input
        THEN (IF f = "tags" THEN formatTagsForStorage(input[f]) ELSE input[f])
        ELSE row[f]]

\* tags.filter(t => t !== a && t !== b)
without(arr, drop) == SelectSeq(arr, LAMBDA t : t \notin drop)

\* if (!tags.includes(t)) tags.push(t)
pushIfAbsent(arr, t) == IF includes(arr, t) THEN arr ELSE Append(arr, t)

moveToDateRow(row, date, time) ==
    [row EXCEPT !.due_date = Some(date),
                !.due_time = time,
                !.tags = formatTagsForStorage(
                             without(parseTagsFromStorage(row.tags), {"soon", "someday"}))]

\* moveToSoon without the filter that drops "someday"
moveToSoonRow_keepSomeday(row) ==
    [row EXCEPT !.due_date = NULL,
                !.due_time = NULL,
                !.tags = formatTagsForStorage(
                             pushIfAbsent(parseTagsFromStorage(row.tags), "soon"))]

moveToSoonRow(row) ==
    [row EXCEPT !.due_date = NULL,
                !.due_time = NULL,
                !.tags = formatTagsForStorage(
                             pushIfAbsent(without(parseTagsFromStorage(row.tags), {"someday"}),
                                          "soon"))]

moveToSomedayRow(row) ==
    [row EXCEPT !.due_date = NULL,
                !.due_time = NULL,
                !.tags = formatTagsForStorage(
                             pushIfAbsent(without(parseTagsFromStorage(row.tags), {"soon"}),
                                          "someday"))]

moveToInboxRow(row) ==
    [row EXCEPT !.due_date = NULL,
                !.due_time = NULL,
                !.tags = formatTagsForStorage(
                             without(parseTagsFromStorage(row.tags), {"soon", "someday"}))]

RECURSIVE pushAllLower(_, _)
\* for (const t of newTags) { const lower = t.toLowerCase(); if (!tags.includes(lower)) tags.push(lower) }
pushAllLower(arr, newTags) ==
    IF newTags = <<>> THEN arr
    ELSE pushAllLower(pushIfAbsent(arr, toLowerCase(Head(newTags))), Tail(newTags))

addTagsToTaskRow(row, newTags) ==
    [row EXCEPT !.tags = formatTagsForStorage(
                             pushAllLower(parseTagsFromStorage(row.tags), newTags))]

removeTagsFromTaskRow(row, tagsToRemove) ==
    [row EXCEPT !.tags = formatTagsForStorage(
                             without(parseTagsFromStorage(row.tags),
                                     {toLowerCase(tagsToRemove[i]) : i \in 1..Len(tagsToRemove)}))]

\* a store with row r under id
Put(store, id, r) == [i \in DOMAIN store \cup {id} |-> IF i = id THEN r ELSE store[i]]

\* a store without id
Drop(store, id) == [i \in DOMAIN store \ {id} |-> store[i]]

\* index.ts, deleteTask(id): DELETE FROM tasks WHERE id = ?; return
\* result.changes > 0.  The table it leaves and what it returns
deleteTask(store, id) ==
    [ store   |-> [i \in {j \in DOMAIN store : j # id} |-> store[i]],
      changed |-> Cardinality({j \in DOMAIN store : j = id}) > 0 ]

\* skipTask deleting the row only if it is an occurrence of a template
skipTask_occurrenceOnly(store, taskId) ==
    [ store   |-> [i \in {j \in DOMAIN store :
                              j # taskId \/ store[j].recurring_id = NULL} |-> store[i]],
      changed |-> Cardinality({j \in DOMAIN store :
                                  j = taskId /\ store[j].recurring_id # NULL}) > 0 ]

\* generation.ts, skipTask(taskId): DELETE FROM tasks WHERE id = ?; return
\* result.changes > 0.  The table it leaves and what it returns
skipTask(store, taskId) ==
    [ store   |-> [i \in {j \in DOMAIN store : j # taskId} |-> store[i]],
      changed |-> Cardinality({j \in DOMAIN store : j = taskId}) > 0 ]

\* a lookup that returns a row for every id
Found_always(store, id) == Some(id)

\* getTaskById / getTemplateById as a result: the id of the row, or null
Found(store, id) == IF id \in DOMAIN store THEN Some(id) ELSE NULL

-----------------------------------------------------------------------------
(* BucketClassifier: queries.ts.  A query's result is the set of the ids   *)
(* of the rows it returns (the ORDER BY clauses are not modelled).         *)

Active(id) == tasks[id].completed_at = NULL

getAllActive == {id \in DOMAIN tasks : Active(id)}

getByDate(date) == {id \in DOMAIN tasks : tasks[id].due_date = Some(date) /\ Active(id)}

getToday == getByDate(today)

\* due_date < ? is unknown, hence not selected, for a NULL due_date
getOverdue ==
    {id \in DOMAIN tasks :
        tasks[id].due_date # NULL /\ Val(tasks[id].due_date) < today /\ Active(id)}

getSoon ==
    {id \in DOMAIN tasks :
        tasks[id].due_date = NULL /\ Active(id) /\ like(tasks[id].tags, "soon")}

getSomeday ==
    {id \in DOMAIN tasks :
        tasks[id].due_date = NULL /\ Active(id) /\ like(tasks[id].tags, "someday")}

getInbox ==
    {id \in DOMAIN tasks :
        /\ tasks[id].due_date = NULL
        /\ Active(id)
        /\ (tasks[id].tags = NULL
              \/ (~like(tasks[id].tags, "soon") /\ ~like(tasks[id].tags, "someday")))}

getCompleted == {id \in DOMAIN tasks : ~Active(id)}

\* getStats(): five COUNT(*) statements and the lengths of three bucket queries
getStats ==
    [ total     |-> Cardinality(DOMAIN tasks),
      completed |-> Cardinality({id \in DOMAIN tasks : tasks[id].completed_at # NULL}),
      active    |-> Cardinality({id \in DOMAIN tasks : tasks[id].completed_at = NULL}),
      overdue   |-> Cardinality({id \in DOMAIN tasks :
                                    /\ tasks[id].due_date # NULL
                                    /\ Val(tasks[id].due_date) < today
                                    /\ tasks[id].completed_at = NULL}),
      dueToday  |-> Cardinality({id \in DOMAIN tasks :
                                    /\ tasks[id].due_date = Some(today)
                                    /\ tasks[id].completed_at = NULL}),
      inbox     |-> Cardinality(getInbox),
      soon      |-> Cardinality(getSoon),
      someday   |-> Cardinality(getSomeday) ]


-----------------------------------------------------------------------------
(* TemplateStore rows: recurring.ts.                                       *)

\* input.f || null for a number: 0 and undefined give null
NumOrNull(input, f) ==
    IF f \in DOMAIN input /\ input[f] # 0 THEN Some(input[f]) ELSE NULL

\* input.f || null for a string: "" and undefined give null
StrOrNull(input, f) ==
    IF f \in DOMAIN input /\ input[f] # <<"">> THEN input[f] ELSE NULL

\* the row createRecurringTemplate inserts
createRecurringTemplateRow(input) ==
    [ title              |-> input.title,
      description        |-> OrNull(input, "description"),
      due_time           |-> OrNull(input, "due_time"),
      tags               |-> IF "tags" \in DOMAIN input
                             THEN formatTagsForStorage(input.tags) ELSE NULL,
      project            |-> OrNull(input, "project"),
      priority           |-> IF "priority" \in DOMAIN input THEN input.priority ELSE 0,
      recur_type         |-> input.recur_type,
      recur_interval     |-> IF "recur_interval" \in DOMAIN input /\ input.recur_interval # 0
                             THEN input.recur_interval ELSE 1,
      recur_days         |-> StrOrNull(input, "recur_days"),
      recur_day_of_month |-> NumOrNull(input, "recur_day_of_month"),
      start_date         |-> input.start_date,
      end_date           |-> OrNull(input, "end_date"),
      last_generated     |-> NULL,
      enabled            |-> 1 ]

\* the row updateTemplate leaves: every field the input defines is overwritten
updateTemplateRow(row, input) ==
    [f \in DOMAIN row |->
        IF f \in DOMAIN input
        THEN (IF f = "tags" THEN formatTagsForStorage(input[f]) ELSE input[f])
        ELSE row[f]]

\* the order of the titles of the model under ORDER BY title ASC
TitleOrder == <<"Daily task", "MWF task", "Pay rent", "Test">>

TitleRank(title) == CHOOSE i \in 1..Len(TitleOrder) : TitleOrder[i] = title

\* rows with equal titles come in rowid order
Before(tpl, a, b) ==
    \/ TitleRank(tpl[a].title) < TitleRank(tpl[b].title)
    \/ TitleRank(tpl[a].title) = TitleRank(tpl[b].title) /\ a < b

RECURSIVE SortIds(_, _)
SortIds(tpl, ids) ==
    IF ids = {} THEN <<>>
    ELSE LET first == CHOOSE a \in ids : \A b \in ids \ {a} : Before(tpl, a, b)
         IN  <<first>> \o SortIds(tpl, ids \ {first})

\* SELECT * FROM recurring_templates ORDER BY title ASC: getActiveTemplates
\* without its WHERE enabled = 1
getActiveTemplates_all(tpl) == SortIds(tpl, DOMAIN tpl)

\* SELECT * FROM recurring_templates WHERE enabled = 1 ORDER BY title ASC (ids)
getActiveTemplates(tpl) == SortIds(tpl, {id \in DOMAIN tpl : tpl[id].enabled = 1})

-----------------------------------------------------------------------------
(* Materializer: generation.ts.                                            *)

\* taskExistsForDate with its two bind values swapped: stmt.get(date, templateId)
taskExistsForDate_swapped(store, templateId, date) ==
    Cardinality({id \in DOMAIN store :
                    /\ store[id].recurring_id = Some(date)
                    /\ store[id].due_date = Some(templateId)}) > 0

\* taskExistsForDate counting the tasks that are not completed only
taskExistsForDate_activeOnly(store, templateId, date) ==
    Cardinality({id \in DOMAIN store :
                    /\ store[id].recurring_id = Some(templateId)
                    /\ store[id].due_date = Some(date)
                    /\ store[id].completed_at = NULL}) > 0

\* SELECT COUNT(*) ... WHERE recurring_id = ? AND due_date = ?  > 0
taskExistsForDate(store, templateId, date) ==
    Cardinality({id \in DOMAIN store :
                    /\ store[id].recurring_id = Some(templateId)
                    /\ store[id].due_date = Some(date)}) > 0

\* createTaskFromTemplate binding the title, the date and the template id only
createTaskFromTemplate_bare(t, templateId, date) ==
    [ title        |-> t.title,
      description  |-> NULL,
      due_date     |-> Some(date),
      due_time     |-> NULL,
      tags         |-> NULL,
      project      |-> NULL,
      priority     |-> 0,
      completed_at |-> NULL,
      recurring_id |-> Some(templateId) ]

\* the row createTaskFromTemplate inserts
createTaskFromTemplate(t, templateId, date) ==
    [ title        |-> t.title,
      description  |-> t.description,
      due_date     |-> Some(date),
      due_time     |-> t.due_time,
      tags         |-> t.tags,
      project      |-> t.project,
      priority     |-> t.priority,
      completed_at |-> NULL,
      recurring_id |-> Some(templateId) ]

\* generateStep keeping the first date it created an occurrence for
generateStep_firstDate(z, date, templateId, t, acc) ==
    IF dateMatchesPattern(z, date, t) /\ ~taskExistsForDate(acc.store, templateId, date)
    THEN [ store    |-> Put(acc.store, acc.nextId, createTaskFromTemplate(t, templateId, date)),
           nextId   |-> acc.nextId + 1,
           created  |-> Append(acc.created, acc.nextId),
           lastDate |-> IF acc.lastDate = NULL THEN Some(date) ELSE acc.lastDate ]
    ELSE acc

\* one round of the for loop of generateTasksForTemplate on the loop state
\* acc = [store, nextId, created, lastDate]
generateStep(z, date, templateId, t, acc) ==
    IF dateMatchesPattern(z, date, t) /\ ~taskExistsForDate(acc.store, templateId, date)
    THEN [ store    |-> Put(acc.store, acc.nextId, createTaskFromTemplate(t, templateId, date)),
           nextId   |-> acc.nextId + 1,
           created  |-> Append(acc.created, acc.nextId),
           lastDate |-> Some(date) ]
    ELSE acc

RECURSIVE generateLoop(_, _, _, _, _)
generateLoop(z, dates, templateId, t, acc) ==
    IF dates = <<>> THEN acc
    ELSE generateLoop(z, Tail(dates), templateId, t,
                      generateStep(z, Head(dates), templateId, t, acc))

\* UPDATE recurring_templates SET last_generated = ? WHERE id = ?
updateLastGenerated(tpl, id, date) ==
    IF id \in DOMAIN tpl THEN [tpl EXCEPT ![id].last_generated = Some(date)] ELSE tpl

\* generateDone writing last_generated also when the loop created nothing
generateDone_always(db, templateId, out) ==
    [ db |-> [ tasks     |-> out.store,
               nextId    |-> out.nextId,
               templates |-> updateLastGenerated(db.templates, templateId,
                                 IF out.lastDate # NULL THEN Val(out.lastDate)
                                 ELSE today) ],
      created |-> out.created ]

\* what generateTasksForTemplate leaves after its loop ended in the loop state out:
\* if (lastDate) updateLastGenerated(templateId, lastDate); return created
generateDone(db, templateId, out) ==
    [ db |-> [ tasks     |-> out.store,
               nextId    |-> out.nextId,
               templates |-> IF out.lastDate # NULL
                             THEN updateLastGenerated(db.templates, templateId,
                                                      Val(out.lastDate))
                             ELSE db.templates ],
      created |-> out.created ]

\* generateTasksForTemplate without the test of template.enabled
generateTasksForTemplate_anyEnabled(z, db, templateId, days) ==
    IF templateId \notin DOMAIN db.templates
    THEN [db |-> db, created |-> <<>>]
    ELSE generateDone(db, templateId,
             generateLoop(z, getDateRange(z, today, daysFromNow(days - 1)), templateId,
                          db.templates[templateId],
                          [ store |-> db.tasks, nextId |-> db.nextId,
                            created |-> <<>>, lastDate |-> NULL ]))

\* generateTasksForTemplate(templateId, days) run on the database db =
\* [tasks, nextId, templates]: the database it leaves and the ids it returns
generateTasksForTemplate(z, db, templateId, days) ==
    IF templateId \notin DOMAIN db.templates \/ db.templates[templateId].enabled = 0
    THEN [db |-> db, created |-> <<>>]
    ELSE generateDone(db, templateId,
             generateLoop(z, getDateRange(z, today, daysFromNow(days - 1)), templateId,
                          db.templates[templateId],
                          [ store |-> db.tasks, nextId |-> db.nextId,
                            created |-> <<>>, lastDate |-> NULL ]))

\* tasksCreated += created.length, on the loop state acc = [db, tasksCreated]
addCreated(r, acc) == [db |-> r.db, tasksCreated |-> acc.tasksCreated + Len(r.created)]

RECURSIVE generateAllLoop(_, _, _, _)
\* the for loop of generateAllTasks over the templates read at its start
generateAllLoop(z, ids, days, acc) ==
    IF ids = <<>> THEN acc
    ELSE generateAllLoop(z, Tail(ids), days,
                         addCreated(generateTasksForTemplate(z, acc.db, Head(ids), days),
                                    acc))

generateAllResult(ids, acc) ==
    [ db |-> acc.db,
      templatesProcessed |-> Len(ids),
      tasksCreated |-> acc.tasksCreated ]

generateAllFor(z, db, days, ids) ==
    generateAllResult(ids, generateAllLoop(z, ids, days, [db |-> db, tasksCreated |-> 0]))

generateAllTasks(z, db, days) ==
    generateAllFor(z, db, days, getActiveTemplates(db.templates))

RECURSIVE upTo(_, _)
\* the templates the for loop of generateAllTasks has finished when it reaches f
upTo(ids, f) ==
    IF ids = <<>> \/ Head(ids) = f THEN <<>>
    ELSE <<Head(ids)>> \o upTo(Tail(ids), f)

\* generateAllTasks when a statement of generateTasksForTemplate(f) throws
\* before it has inserted a row: nothing catches the exception, the loop ends
\* there, and what earlier rounds wrote stays written
generateAllTasksThrows(z, db, days, f) ==
    generateAllLoop(z, upTo(getActiveTemplates(db.templates), f), days,
                    [db |-> db, tasksCreated |-> 0])

-----------------------------------------------------------------------------
(* Bounds and inputs of the model.                                         *)

\* rows the tasks table ever receives in a run of Spec (ids are never reused)
MaxTasks == 2
\* rows the recurring_templates table ever receives in a run of Spec
MaxTemplates == 1
\* the largest horizon (days argument) of a generation call in Spec
MaxDays == 2
\* how many times the date changes during a run
MaxAdvance == 1
\* rows the tasks table ever receives in a run of SpecTasks
TaskCap == 1
\* task commands (complete, reopen, move, edit, add) issued in a run of Spec
MaxEdits == 1
\* processes that run generateTasksForTemplate at the same time in SpecRace
MaxProcs == 2
\* rows the tasks table ever receives in a run of SpecRace
RaceCap == 3
\* the largest recur_interval of a template of SpecRules
MaxInterval == 3
\* how far after today the dates put to dateMatchesPattern in SpecRules reach
MatchSpan == 4
\* templates the store of SpecAll holds
AllTemplates == 2
\* rows the tasks table ever receives in a run of SpecAll
AllCap == 5
\* rows the tasks table ever receives in a run of SpecMarker
MarkerCap == 3
\* export function generateTasksForTemplate(templateId: number, days: number = 14)
DefaultDays == 14

\* the date of the first invocation: Friday 2026-03-06
Today0 == DaysFromCivil(2026, 3, 6)

UTC == [name |-> "UTC", base |-> 0, dst |-> FALSE, dstFrom |-> 0]
\* daylight saving time starts on 2026-03-08 at 02:00: the first midnight in it is 03-09
LosAngeles == [name |-> "America/Los_Angeles", base |-> 0 - 8, dst |-> TRUE,
               dstFrom |-> DaysFromCivil(2026, 3, 9)]
\* daylight saving time starts on 2026-03-29 at 02:00
Berlin == [name |-> "Europe/Berlin", base |-> 1, dst |-> TRUE,
           dstFrom |-> DaysFromCivil(2026, 3, 30)]

LocalZones == {UTC, LosAngeles, Berlin}

Horizons == 1..MaxDays

\* dates a caller passes (parsed by the command dispatcher)
DateInputs == {today - 1, today, today + 1}

\* CreateTaskInput values
TaskInputs ==
    {[title |-> "Test"]}
    \cup {[title |-> "Test", due_date |-> Some(d)] : d \in DateInputs}
    \cup {[title |-> "Test", tags |-> tg] :
              tg \in {<<"soon">>, <<"soon", "someday">>, <<"Soon">>, <<"soonish">>}}
    \cup {[title |-> "Test", due_date |-> Some(today), tags |-> <<"someday">>]}

\* UpdateTaskInput values
TaskUpdates ==
    {[due_date |-> Some(today + 1)], [due_date |-> NULL],
     [tags |-> <<"soon", "someday">>], [tags |-> <<>>], [priority |-> 2]}

\* tag arrays of addTagsToTask / removeTagsFromTask
TagArgs == {<<"soon">>, <<"someday">>, <<"Soon">>}

\* CreateTemplateInput values
TemplateInputs ==
    {[title |-> "Daily task", recur_type |-> "daily", recur_interval |-> 1,
      start_date |-> today],
     [title |-> "Daily task", recur_type |-> "daily", recur_interval |-> 2,
      start_date |-> today - 1, end_date |-> Some(today + 1), tags |-> <<"soon">>,
      due_time |-> Some("09:00"), priority |-> 2, description |-> Some("note"),
      project |-> Some("home")],
     [title |-> "MWF task", recur_type |-> "weekly", recur_interval |-> 1,
      recur_days |-> <<"mon", "wed", "fri">>, start_date |-> today - 1]}

\* UpdateTemplateInput values
TemplateUpdates == {[end_date |-> Some(today)]}

\* the ids a caller passes for a row of a table: those of its rows and one of no row
OpIds(store, nextId) == DOMAIN store \cup {nextId}

\* the ids a caller passes to the generator: those of the rows the table has
\* ever held, deleted ones among them, and one of no row
EverIds(nextId) == 1..nextId

-----------------------------------------------------------------------------
(* The operations.  Each action is one call of the named function; last    *)
(* records the call and what it returned.                                  *)

Call(op, id, days, ret) == [op |-> op, id |-> id, days |-> days, ret |-> ret]

\* SELECT * FROM tasks WHERE id = ?
GetTaskById(id) ==
    /\ last' = Call("getTaskById", id, 0, Found(tasks, id))
    /\ UNCHANGED <<tasks, nextTaskId, templates, nextTemplateId, today, zone, procs>>

\* SELECT * FROM recurring_templates WHERE id = ?
GetTemplateById(id) ==
    /\ last' = Call("getTemplateById", id, 0, Found(templates, id))
    /\ UNCHANGED <<tasks, nextTaskId, templates, nextTemplateId, today, zone, procs>>

\* an UPDATE of one task row that getTaskById found
WriteTask(op, id, row) ==
    /\ tasks' = IF id \in DOMAIN tasks THEN Put(tasks, id, row) ELSE tasks
    /\ last' = Call(op, id, 0, Found(tasks, id))
    /\ UNCHANGED <<nextTaskId, templates, nextTemplateId, today, zone, procs>>

CreateTask(input, cap) ==
    /\ nextTaskId <= cap
    /\ tasks' = Put(tasks, nextTaskId, createTaskRow(input))
    /\ nextTaskId' = nextTaskId + 1
    /\ last' = Call("createTask", nextTaskId, 0, Some(nextTaskId))
    /\ UNCHANGED <<templates, nextTemplateId, today, zone, procs>>

\* if (!task) return null; if (updates.length === 0) return task
UpdateTask(id, input) ==
    WriteTask("updateTask", id,
              IF id \in DOMAIN tasks THEN updateTaskRow(tasks[id], input) ELSE NULL)

\* UPDATE ... WHERE id = ? AND completed_at IS NULL
CompleteTask(id) ==
    WriteTask("completeTask", id,
              IF id \in DOMAIN tasks /\ tasks[id].completed_at = NULL
              THEN [tasks[id] EXCEPT !.completed_at = Some("now")]
              ELSE IF id \in DOMAIN tasks THEN tasks[id] ELSE NULL)

ReopenTask(id) ==
    WriteTask("reopenTask", id,
              IF id \in DOMAIN tasks THEN [tasks[id] EXCEPT !.completed_at = NULL] ELSE NULL)

\* the tasks table after a call that returned r = [store, changed], and the
\* call's record
DeleteRow(op, id, r) ==
    /\ tasks' = r.store
    /\ last' = Call(op, id, 0, Some(r.changed))
    /\ UNCHANGED <<nextTaskId, templates, nextTemplateId, today, zone, procs>>

DeleteTask(id) == DeleteRow("deleteTask", id, deleteTask(tasks, id))

SkipTask(id) == DeleteRow("skipTask", id, skipTask(tasks, id))

MoveToDate(id, date, time) ==
    WriteTask("moveToDate", id,
              IF id \in DOMAIN tasks THEN moveToDateRow(tasks[id], date, time) ELSE NULL)

MoveToSoon(id) ==
    WriteTask("moveToSoon", id,
              IF id \in DOMAIN tasks THEN moveToSoonRow(tasks[id]) ELSE NULL)

MoveToSomeday(id) ==
    WriteTask("moveToSomeday", id,
              IF id \in DOMAIN tasks THEN moveToSomedayRow(tasks[id]) ELSE NULL)

MoveToInbox(id) ==
    WriteTask("moveToInbox", id,
              IF id \in DOMAIN tasks THEN moveToInboxRow(tasks[id]) ELSE NULL)

AddTagsToTask(id, newTags) ==
    WriteTask("addTagsToTask", id,
              IF id \in DOMAIN tasks THEN addTagsToTaskRow(tasks[id], newTags) ELSE NULL)

RemoveTagsFromTask(id, tagsToRemove) ==
    WriteTask("removeTagsFromTask", id,
              IF id \in DOMAIN tasks THEN removeTagsFromTaskRow(tasks[id], tagsToRemove)
              ELSE NULL)

\* an UPDATE of one template row
WriteTemplate(op, id, row) ==
    /\ templates' = IF id \in DOMAIN templates THEN Put(templates, id, row) ELSE templates
    /\ last' = Call(op, id, 0, Found(templates, id))
    /\ UNCHANGED <<tasks, nextTaskId, nextTemplateId, today, zone, procs>>

CreateRecurringTemplate(input) ==
    /\ nextTemplateId <= MaxTemplates
    /\ templates' = Put(templates, nextTemplateId, createRecurringTemplateRow(input))
    /\ nextTemplateId' = nextTemplateId + 1
    /\ last' = Call("createRecurringTemplate", nextTemplateId, 0, Some(nextTemplateId))
    /\ UNCHANGED <<tasks, nextTaskId, today, zone, procs>>

UpdateTemplate(id, input) ==
    WriteTemplate("updateTemplate", id,
                  IF id \in DOMAIN templates THEN updateTemplateRow(templates[id], input)
                  ELSE NULL)

EnableTemplate(id) ==
    WriteTemplate("enableTemplate", id,
                  IF id \in DOMAIN templates THEN [templates[id] EXCEPT !.enabled = 1]
                  ELSE NULL)

DisableTemplate(id) ==
    WriteTemplate("disableTemplate", id,
                  IF id \in DOMAIN templates THEN [templates[id] EXCEPT !.enabled = 0]
                  ELSE NULL)

\* deleteTemplate removing the template's occurrences with it
DeleteTemplate_cascade(id) ==
    /\ templates' = Drop(templates, id)
    /\ tasks' = [i \in {j \in DOMAIN tasks : tasks[j].recurring_id # Some(id)} |-> tasks[i]]
    /\ last' = Call("deleteTemplate", id, 0, Some(id \in DOMAIN templates))
    /\ UNCHANGED <<nextTaskId, nextTemplateId, today, zone, procs>>

DeleteTemplate(id) ==
    /\ templates' = Drop(templates, id)
    /\ last' = Call("deleteTemplate", id, 0, Some(id \in DOMAIN templates))
    /\ UNCHANGED <<tasks, nextTaskId, nextTemplateId, today, zone, procs>>

Database == [tasks |-> tasks, nextId |-> nextTaskId, templates |-> templates]

\* the database after a generation call that returned r, and the call's record
Generated(op, id, days, cap, r, ret) ==
    /\ r.db.nextId <= cap + 1
    /\ tasks' = r.db.tasks
    /\ nextTaskId' = r.db.nextId
    /\ templates' = r.db.templates
    /\ last' = Call(op, id, days, ret)
    /\ UNCHANGED <<nextTemplateId, today, zone, procs>>

generateTasksForTemplateCall(op, id, days, cap, r) ==
    Generated(op, id, days, cap, r, r.created)

GenerateTasksForTemplate(id, days, cap) ==
    generateTasksForTemplateCall("generateTasksForTemplate", id, days, cap,
                                 generateTasksForTemplate(zone, Database, id, days))

generateAllTasksCall(op, days, cap, r) ==
    Generated(op, 0, days, cap, r, <<r.templatesProcessed, r.tasksCreated>>)

GenerateAllTasks(days, cap) ==
    generateAllTasksCall("generateAllTasks", days, cap,
                         generateAllTasks(zone, Database, days))

\* generateAllTasks(days) ending in a store error raised for template f; the
\* caller gets the exception and no report
GenerateAllTasksThrows(days, f, cap) ==
    /\ f \in DOMAIN templates
    /\ templates[f].enabled = 1
    /\ Generated("generateAllTasksThrows", f, days, cap,
                 generateAllTasksThrows(zone, Database, days, f), NULL)

\* midnight passes in the configured timezone between two invocations
AdvanceDay ==
    /\ today < Today0 + MaxAdvance
    /\ today' = today + 1
    /\ last' = Call("advanceDay", 0, 0, NULL)
    /\ UNCHANGED <<tasks, nextTaskId, templates, nextTemplateId, zone, procs>>

Empty == [i \in {} |-> NULL]

-----------------------------------------------------------------------------
(* Spec: the recurrence engine with the task operations that act on its    *)
(* occurrences, run as a sequence of invocations.                          *)

Init ==
    /\ tasks = Empty
    /\ nextTaskId = 1
    /\ templates = Empty
    /\ nextTemplateId = 1
    /\ today = Today0
    /\ zone \in LocalZones
    /\ last = Call("init", 0, 0, NULL)
    /\ procs = Empty
    /\ edits = 0

\* a task command, counted against the run's budget of them
Counted == edits < MaxEdits /\ edits' = edits + 1

Next ==
    \/ \E input \in TemplateInputs : CreateRecurringTemplate(input) /\ UNCHANGED edits
    \/ \E id \in OpIds(templates, nextTemplateId), input \in TemplateUpdates :
           UpdateTemplate(id, input) /\ UNCHANGED edits
    \/ \E id \in OpIds(templates, nextTemplateId) : EnableTemplate(id) /\ UNCHANGED edits
    \/ \E id \in OpIds(templates, nextTemplateId) : DisableTemplate(id) /\ UNCHANGED edits
    \/ \E id \in OpIds(templates, nextTemplateId) : DeleteTemplate(id) /\ UNCHANGED edits
    \/ \E id \in EverIds(nextTemplateId), days \in Horizons :
           GenerateTasksForTemplate(id, days, MaxTasks) /\ UNCHANGED edits
    \/ \E days \in Horizons : GenerateAllTasks(days, MaxTasks) /\ UNCHANGED edits
    \/ \E id \in OpIds(tasks, nextTaskId) : SkipTask(id) /\ UNCHANGED edits
    \/ AdvanceDay /\ UNCHANGED edits
    \/ \E id \in OpIds(tasks, nextTaskId) : DeleteTask(id) /\ Counted
    \/ \E id \in OpIds(tasks, nextTaskId) : GetTaskById(id) /\ UNCHANGED edits
    \/ \E id \in OpIds(templates, nextTemplateId) :
           GetTemplateById(id) /\ UNCHANGED edits
    \/ \E id \in OpIds(tasks, nextTaskId) : CompleteTask(id) /\ Counted
    \/ \E id \in OpIds(tasks, nextTaskId) : ReopenTask(id) /\ Counted
    \/ \E id \in OpIds(tasks, nextTaskId) : MoveToDate(id, today + 1, NULL) /\ Counted
    \/ \E id \in OpIds(tasks, nextTaskId) : MoveToSoon(id) /\ Counted
    \/ \E id \in OpIds(tasks, nextTaskId) : MoveToSomeday(id) /\ Counted
    \/ \E id \in OpIds(tasks, nextTaskId) : MoveToInbox(id) /\ Counted
    \/ \E id \in OpIds(tasks, nextTaskId) :
           UpdateTask(id, [due_date |-> Some(today)]) /\ Counted
    \/ CreateTask([title |-> "Test"], MaxTasks) /\ Counted

Spec == Init /\ [][Next]_vars

-----------------------------------------------------------------------------
(* SpecTasks: the task store alone, under every task operation.            *)

InitTasks ==
    /\ tasks = Empty
    /\ nextTaskId = 1
    /\ templates = Empty
    /\ nextTemplateId = 1
    /\ today = Today0
    /\ zone = UTC
    /\ last = Call("init", 0, 0, NULL)
    /\ procs = Empty
    /\ edits = 0

NextTasks ==
    \/ \E input \in TaskInputs : CreateTask(input, TaskCap) /\ UNCHANGED edits
    \/ \E id \in OpIds(tasks, nextTaskId), input \in TaskUpdates :
           UpdateTask(id, input) /\ UNCHANGED edits
    \/ \E id \in OpIds(tasks, nextTaskId) : CompleteTask(id) /\ UNCHANGED edits
    \/ \E id \in OpIds(tasks, nextTaskId) : ReopenTask(id) /\ UNCHANGED edits
    \/ \E id \in OpIds(tasks, nextTaskId) : DeleteTask(id) /\ UNCHANGED edits
    \/ \E id \in OpIds(tasks, nextTaskId), date \in DateInputs,
          time \in {NULL, Some("14:00")} :
           MoveToDate(id, date, time) /\ UNCHANGED edits
    \/ \E id \in OpIds(tasks, nextTaskId) : MoveToSoon(id) /\ UNCHANGED edits
    \/ \E id \in OpIds(tasks, nextTaskId) : MoveToSomeday(id) /\ UNCHANGED edits
    \/ \E id \in OpIds(tasks, nextTaskId) : MoveToInbox(id) /\ UNCHANGED edits
    \/ \E id \in OpIds(tasks, nextTaskId), tg \in TagArgs :
           AddTagsToTask(id, tg) /\ UNCHANGED edits
    \/ \E id \in OpIds(tasks, nextTaskId), tg \in TagArgs :
           RemoveTagsFromTask(id, tg) /\ UNCHANGED edits
    \/ AdvanceDay /\ UNCHANGED edits

SpecTasks == InitTasks /\ [][NextTasks]_vars

-----------------------------------------------------------------------------
(* SpecRace: several processes (two invocations of the command, or the     *)
(* command and a scheduled job) run generateTasksForTemplate on one        *)
(* database file.  Each SQL statement is one step: the store has no        *)
(* transaction around the loop and the schema of initDb has no UNIQUE      *)
(* index on (recurring_id, due_date).                                      *)

Procs == 1..MaxProcs

Idle == [pc |-> "idle", id |-> 0, days |-> 0, t |-> NULL, dates |-> <<>>,
         created |-> <<>>, lastDate |-> NULL]

\* const template = getTemplateById(templateId);
\* if (!template || template.enabled === 0) return []; ... getDateRange(...)
RaceBegin(p, id, days) ==
    /\ procs[p].pc = "idle"
    /\ procs' = [procs EXCEPT ![p] =
                    IF id \notin DOMAIN templates \/ templates[id].enabled = 0
                    THEN [Idle EXCEPT !.pc = "done", !.id = id, !.days = days]
                    ELSE [Idle EXCEPT !.pc = "loop", !.id = id, !.days = days,
                                      !.t = templates[id],
                                      !.dates = getDateRange(zone, today,
                                                             daysFromNow(days - 1))]]
    /\ last' = Call("begin", id, days, Some(p))
    /\ UNCHANGED <<tasks, nextTaskId, templates, nextTemplateId, today, zone, edits>>

\* if (dateMatchesPattern(date, template) && !taskExistsForDate(templateId, date))
RaceCheck(p) ==
    /\ procs[p].pc = "loop"
    /\ procs[p].dates # <<>>
    /\ procs' = [procs EXCEPT ![p] =
                    IF /\ dateMatchesPattern(zone, Head(procs[p].dates), procs[p].t)
                       /\ ~taskExistsForDate(tasks, procs[p].id, Head(procs[p].dates))
                    THEN [procs[p] EXCEPT !.pc = "insert"]
                    ELSE [procs[p] EXCEPT !.dates = Tail(procs[p].dates)]]
    /\ last' = Call("taskExistsForDate", procs[p].id, procs[p].days, Some(p))
    /\ UNCHANGED <<tasks, nextTaskId, templates, nextTemplateId, today, zone, edits>>

\* const task = createTaskFromTemplate(template, date); createdTasks.push(task);
\* lastDate = date
RaceInsert(p) ==
    /\ procs[p].pc = "insert"
    /\ nextTaskId <= RaceCap
    /\ tasks' = Put(tasks, nextTaskId,
                    createTaskFromTemplate(procs[p].t, procs[p].id, Head(procs[p].dates)))
    /\ nextTaskId' = nextTaskId + 1
    /\ procs' = [procs EXCEPT ![p] =
                    [procs[p] EXCEPT !.pc = "loop",
                                     !.dates = Tail(procs[p].dates),
                                     !.created = Append(procs[p].created, nextTaskId),
                                     !.lastDate = Some(Head(procs[p].dates))]]
    /\ last' = Call("createTaskFromTemplate", procs[p].id, procs[p].days, Some(p))
    /\ UNCHANGED <<templates, nextTemplateId, today, zone, edits>>

\* if (lastDate) updateLastGenerated(templateId, lastDate); return createdTasks
RaceFinish(p) ==
    /\ procs[p].pc = "loop"
    /\ procs[p].dates = <<>>
    /\ templates' = IF procs[p].lastDate # NULL
                    THEN updateLastGenerated(templates, procs[p].id, Val(procs[p].lastDate))
                    ELSE templates
    /\ procs' = [procs EXCEPT ![p] = [procs[p] EXCEPT !.pc = "done"]]
    /\ last' = Call("generateTasksForTemplate", procs[p].id, procs[p].days,
                    procs[p].created)
    /\ UNCHANGED <<tasks, nextTaskId, nextTemplateId, today, zone, edits>>

InitRace ==
    /\ tasks = Empty
    /\ nextTaskId = 1
    /\ templates = Empty
    /\ nextTemplateId = 1
    /\ today = Today0
    /\ zone \in LocalZones
    /\ last = Call("init", 0, 0, NULL)
    /\ procs = [p \in Procs |-> Idle]
    /\ edits = 0

NextRace ==
    \/ \E input \in TemplateInputs :
           CreateRecurringTemplate(input) /\ UNCHANGED edits
    \/ \E id \in OpIds(templates, nextTemplateId) : DisableTemplate(id) /\ UNCHANGED edits
    \/ \E p \in Procs, id \in OpIds(templates, nextTemplateId), days \in Horizons :
           RaceBegin(p, id, days)
    \/ \E p \in Procs : RaceCheck(p)
    \/ \E p \in Procs : RaceInsert(p)
    \/ \E p \in Procs : RaceFinish(p)

SpecRace == InitRace /\ [][NextRace]_vars

-----------------------------------------------------------------------------
(* SpecRules: the recurrence rules.  dateMatchesPattern is put to a stored  *)
(* template on the dates around today and on dates further off, and the    *)
(* generator runs with its default horizon.                                *)

\* the days SpecRules runs on: a Friday and the Monday after it
RuleDays == {Today0, Today0 + 3}

Monday0 == DaysFromCivil(2026, 3, 2)

DailyInputs ==
    {[title |-> "Daily task", recur_type |-> "daily", recur_interval |-> n,
      start_date |-> sd] : n \in 1..MaxInterval, sd \in {Today0 - 1, Today0}}
    \cup {[title |-> "Daily task", recur_type |-> "daily", recur_interval |-> n,
           start_date |-> sd, end_date |-> Some(Today0 + 3)] :
              n \in 1..MaxInterval, sd \in {Today0 - 1, Today0}}

WeeklyInputs ==
    {[title |-> "MWF task", recur_type |-> "weekly", recur_interval |-> n,
      recur_days |-> <<"mon", "wed", "fri">>, start_date |-> sd] :
        n \in 1..MaxInterval, sd \in {Monday0, Monday0 + 7}}
    \cup {[title |-> "MWF task", recur_type |-> "weekly", recur_interval |-> n,
           recur_days |-> <<"mon", "wed", "fri">>, start_date |-> Monday0,
           end_date |-> Some(Monday0 + 9)] : n \in 1..MaxInterval}
    \cup {[title |-> "Test", recur_type |-> "weekly", recur_interval |-> n,
           start_date |-> Monday0 + 2] : n \in 1..MaxInterval}
    \cup {[title |-> "Test", recur_type |-> "weekly", recur_interval |-> 1,
           recur_days |-> days, start_date |-> Monday0] :
              days \in {<<"Mon", " wed", "FRI ">>, <<"friday", "xyz">>}}

MonthlyInputs ==
    {[title |-> "Pay rent", recur_type |-> "monthly", recur_interval |-> n,
      recur_day_of_month |-> 15, start_date |-> DaysFromCivil(2026, 1, 15)] :
        n \in 1..MaxInterval}
    \cup {[title |-> "Pay rent", recur_type |-> "monthly", recur_interval |-> n,
           start_date |-> DaysFromCivil(2026, 1, 31)] : n \in 1..MaxInterval}
    \cup {[title |-> "Pay rent", recur_type |-> "monthly", recur_interval |-> n,
           recur_day_of_month |-> 9, start_date |-> DaysFromCivil(2025, 12, 6),
           end_date |-> Some(DaysFromCivil(2026, 4, 30))] : n \in 1..MaxInterval}

YearlyInputs ==
    {[title |-> "Test", recur_type |-> "yearly", recur_interval |-> n,
      start_date |-> sd] :
        n \in 1..MaxInterval,
        sd \in {DaysFromCivil(2024, 2, 29), DaysFromCivil(2024, 3, 9)}}
    \cup {[title |-> "Test", recur_type |-> "yearly", recur_interval |-> n,
           start_date |-> DaysFromCivil(2025, 3, 6),
           end_date |-> Some(DaysFromCivil(2027, 3, 6))] : n \in 1..MaxInterval}

\* CreateTemplateInput values of SpecRules
RuleInputs == DailyInputs \cup WeeklyInputs \cup MonthlyInputs \cup YearlyInputs

\* dates further from today that the rules are put to
ProbeDates ==
    {DaysFromCivil(2025, 2, 28), DaysFromCivil(2025, 3, 1), DaysFromCivil(2025, 3, 9),
     DaysFromCivil(2026, 1, 31), DaysFromCivil(2026, 2, 15), DaysFromCivil(2026, 2, 28),
     DaysFromCivil(2026, 3, 15), DaysFromCivil(2026, 3, 16), DaysFromCivil(2026, 3, 18),
     DaysFromCivil(2026, 3, 23), DaysFromCivil(2026, 3, 31), DaysFromCivil(2026, 4, 9),
     DaysFromCivil(2026, 4, 15), DaysFromCivil(2026, 4, 30), DaysFromCivil(2026, 5, 9),
     DaysFromCivil(2026, 5, 31), DaysFromCivil(2027, 3, 6), DaysFromCivil(2027, 3, 9),
     DaysFromCivil(2028, 2, 29), DaysFromCivil(2028, 3, 6)}

MatchDates == (today - 2)..(today + MatchSpan) \cup ProbeDates

\* one evaluation of dateMatchesPattern(date, template) on a stored template;
\* the record keeps the date with the result
DateMatchesPattern(id, date) ==
    /\ id \in DOMAIN templates
    /\ last' = Call("dateMatchesPattern", id, 0,
                    <<date, dateMatchesPattern(zone, date, templates[id])>>)
    /\ UNCHANGED <<tasks, nextTaskId, templates, nextTemplateId, today, zone, procs>>

\* the database after one createRecurringTemplate on a fresh store
InitRules ==
    /\ tasks = Empty
    /\ nextTaskId = 1
    /\ \E input \in RuleInputs :
           templates = Put(Empty, 1, createRecurringTemplateRow(input))
    /\ nextTemplateId = 2
    /\ today \in RuleDays
    /\ zone \in LocalZones
    /\ last = Call("createRecurringTemplate", 1, 0, Some(1))
    /\ procs = Empty
    /\ edits = 0

NextRules ==
    \/ \E id \in DOMAIN templates, date \in MatchDates :
           DateMatchesPattern(id, date) /\ UNCHANGED edits
    \/ \E id \in DOMAIN templates :
           GenerateTasksForTemplate(id, DefaultDays, DefaultDays) /\ UNCHANGED edits

SpecRules == InitRules /\ [][NextRules]_vars

-----------------------------------------------------------------------------
(* SpecAll: generateAllTasks over a store of several templates, some of    *)
(* them disabled, some with the same rule.                                 *)

\* CreateTemplateInput values of SpecAll
AllInputs ==
    {[title |-> "Daily task", recur_type |-> "daily", recur_interval |-> 1,
      start_date |-> Today0],
     [title |-> "Pay rent", recur_type |-> "daily", recur_interval |-> 2,
      start_date |-> Today0 - 1, tags |-> <<"soon">>, priority |-> 2]}

\* the database after AllTemplates calls of createRecurringTemplate on a fresh
\* store
InitAll ==
    /\ tasks = Empty
    /\ nextTaskId = 1
    /\ \E input \in [1..AllTemplates -> AllInputs] :
           templates = [id \in 1..AllTemplates |-> createRecurringTemplateRow(input[id])]
    /\ nextTemplateId = AllTemplates + 1
    /\ today = Today0
    /\ zone \in LocalZones
    /\ last = Call("createRecurringTemplate", AllTemplates, 0, Some(AllTemplates))
    /\ procs = Empty
    /\ edits = 0

NextAll ==
    \/ \E id \in DOMAIN templates : DisableTemplate(id) /\ UNCHANGED edits
    \/ \E id \in DOMAIN templates : EnableTemplate(id) /\ UNCHANGED edits
    \/ \E days \in Horizons : GenerateAllTasks(days, AllCap) /\ UNCHANGED edits
    \/ \E days \in Horizons, f \in DOMAIN templates :
           GenerateAllTasksThrows(days, f, AllCap) /\ UNCHANGED edits
    \/ AdvanceDay /\ UNCHANGED edits

SpecAll == InitAll /\ [][NextAll]_vars

-----------------------------------------------------------------------------
(* SpecMarker: one template generated for again and again, with changing    *)
(* horizons, between skipTask, moveToDate, disableTemplate, enableTemplate   *)
(* and the passing of days.                                                 *)

\* the database after one createRecurringTemplate on a fresh store
InitMarker ==
    /\ tasks = Empty
    /\ nextTaskId = 1
    /\ \E input \in AllInputs :
           templates = Put(Empty, 1, createRecurringTemplateRow(input))
    /\ nextTemplateId = 2
    /\ today = Today0
    /\ zone \in LocalZones
    /\ last = Call("createRecurringTemplate", 1, 0, Some(1))
    /\ procs = Empty
    /\ edits = 0

NextMarker ==
    \/ \E id \in DOMAIN templates, days \in Horizons :
           GenerateTasksForTemplate(id, days, MarkerCap) /\ UNCHANGED edits
    \/ \E id \in DOMAIN tasks : SkipTask(id) /\ UNCHANGED edits
    \/ \E id \in DOMAIN tasks : MoveToDate(id, today + 1, NULL) /\ UNCHANGED edits
    \/ \E id \in DOMAIN templates : DisableTemplate(id) /\ UNCHANGED edits
    \/ \E id \in DOMAIN templates : EnableTemplate(id) /\ UNCHANGED edits
    \/ AdvanceDay /\ UNCHANGED edits

SpecMarker == InitMarker /\ [][NextMarker]_vars

-----------------------------------------------------------------------------
(* SpecParse: parseTime and parseDate called on strings a user may type.    *)

ParseTime(input) ==
    /\ last' = [op |-> "parseTime", input |-> input, now |-> today,
                ret |-> parseTime(input)]
    /\ UNCHANGED <<tasks, nextTaskId, templates, nextTemplateId, today, zone, procs, edits>>

\* today() is the date in the configured timezone (UTC unless configured), and
\* new Date().getDay() the weekday of the process's own: between the two
\* midnights the process is a day behind west of UTC and a day ahead east of it
ParseDate(input, now) ==
    /\ last' = [op |-> "parseDate", input |-> input, now |-> now,
                ret |-> parseDate(input, now)]
    /\ UNCHANGED <<tasks, nextTaskId, templates, nextTemplateId, today, zone, procs, edits>>

NextParse ==
    LET \* time strings: an hour, then minutes or none, then a period or none
        hours   == {<<>>, <<"9">>, <<"0", "9">>, <<"1", "2">>, <<"1", "3">>,
                    <<"2", "5">>, <<"1", "2", "3">>}
        minutes == {<<>>, <<":", "0", "0">>, <<":", "3", "0">>, <<":", "6", "1">>,
                    <<":", "5">>}
        periods == {<<>>, <<"a", "m">>, <<"p", "m">>, <<"P", "M">>, <<" ", "p", "m">>,
                    <<"x", "m">>}
        \* date strings: the names of the weekdays in full and cut to three
        \* letters, in small letters and capitalised, alone and after 'next',
        \* and the other formats
        cut(w)  == SubSeq(w, 1, 3)
        cap(w)  == <<Letters.upper[CHOOSE k \in 1..26 : Letters.lower[k] = w[1]]>> \o Tail(w)
        forms   == UNION {{dayNames[i], cut(dayNames[i]), cap(dayNames[i]),
                           cap(cut(dayNames[i])), dayNames[i] \o <<" ">>} : i \in 1..7}
        next    == {<<"n", "e", "x", "t", " ">>, <<"N", "e", "x", "t", " ", " ">>}
        others  == { <<"t", "o", "d", "a", "y">>,
                     <<"T", "o", "m", "o", "r", "r", "o", "w">>,
                     <<"+", "3", "d">>, <<"+", "2", "w">>, <<"+", "d">>,
                     <<"2", "0", "2", "6", "-", "0", "3", "-", "0", "9">>,
                     <<"2", "0", "2", "6", "-", "1", "3", "-", "4", "5">>,
                     <<"3", "/", "9">>, <<"3", "/", "9", "/", "2", "0", "2", "7">>,
                     <<"f", "e", "b", " ", "1", "0">>,
                     <<"M", "a", "r", "c", "h", " ", "9", " ", "2", "0", "2", "7">>,
                     <<"s", "o", "o", "n">>, <<>> }
    IN  \/ \E h \in hours, m \in minutes, p \in periods : ParseTime(h \o m \o p)
        \/ \E input \in forms \cup {n \o w : n \in next, w \in forms} \cup others,
              now \in {today} \cup (IF zone.base < 0 THEN {today - 1}
                                    ELSE IF zone.base > 0 THEN {today + 1} ELSE {}) :
               ParseDate(input, now)

SpecParse == Init /\ [][NextParse]_vars

-----------------------------------------------------------------------------
(* SpecInterval: createRecurringTemplate and updateTemplate called with any *)
(* integer as recur_interval, from one below zero to MaxInterval, and with   *)
(* none.                                                                    *)

NextInterval ==
    \/ \E type \in {"daily", "weekly", "monthly", "yearly"}, n \in (0 - 1)..MaxInterval :
           /\ CreateRecurringTemplate([title |-> "Daily task", recur_type |-> type,
                                       recur_interval |-> n, start_date |-> today])
           /\ UNCHANGED edits
    \/ /\ CreateRecurringTemplate([title |-> "Pay rent", recur_type |-> "monthly",
                                   start_date |-> today])
       /\ UNCHANGED edits
    \/ \E id \in OpIds(templates, nextTemplateId), n \in (0 - 1)..MaxInterval :
           UpdateTemplate(id, [recur_interval |-> n]) /\ UNCHANGED edits

SpecInterval == Init /\ [][NextInterval]_vars

-----------------------------------------------------------------------------
(* SpecCli: the commands of src/index.ts (main) that read a date or a time   *)
(* from their arguments.  An argument is the string of a flag or position,  *)
(* or null when the command line has none; the process's clock shows the    *)
(* local date now.  A command's record holds its arguments and whether it   *)
(* ended in process.exit(1).                                                *)

\* tasks add "Test" [--due <date>] [--time <time>]
CmdAdd(dueStr, timeStr, now) ==
    LET \* the day number of a parsed date, null for null
        DayOf(date) ==
            IF date = NULL THEN NULL
            ELSE Some(DaysFromCivil(Val(date).y, Val(date).m, Val(date).d))
        run(dueDate, dueTime) ==
            LET exit == \/ dueStr # NULL /\ dueDate = NULL
                        \/ timeStr # NULL /\ dueTime = NULL
            IN  /\ exit \/ nextTaskId <= TaskCap
                /\ tasks' = IF exit THEN tasks
                            ELSE Put(tasks, nextTaskId,
                                     createTaskRow([title    |-> "Test",
                                                    due_date |-> dueDate,
                                                    due_time |-> dueTime,
                                                    priority |-> 0]))
                /\ nextTaskId' = IF exit THEN nextTaskId ELSE nextTaskId + 1
                /\ last' = [op |-> "add", id |-> nextTaskId, dates |-> <<dueStr>>,
                            time |-> timeStr, now |-> now, exit |-> exit]
    IN  /\ run(IF dueStr = NULL THEN NULL ELSE DayOf(parseDate(Val(dueStr), now)),
               IF timeStr = NULL THEN NULL ELSE parseTime(Val(timeStr)))
        /\ UNCHANGED <<templates, nextTemplateId, today, zone, procs, edits>>

\* tasks move <id> --date <date> [--time <time>]
CmdMove(id, dateArg, timeArg, now) ==
    LET \* the day number of a parsed date, null for null
        DayOf(date) ==
            IF date = NULL THEN NULL
            ELSE Some(DaysFromCivil(Val(date).y, Val(date).m, Val(date).d))
        run(date, time) ==
            LET exit == date = NULL \/ id \notin DOMAIN tasks
            IN  /\ tasks' = IF exit THEN tasks
                            ELSE Put(tasks, id, moveToDateRow(tasks[id], Val(date), time))
                /\ last' = [op |-> "move", id |-> id, dates |-> <<Some(dateArg)>>,
                            time |-> timeArg, now |-> now, exit |-> exit]
    IN  \* timeArg ? parseTime(timeArg) || undefined : undefined
        /\ run(DayOf(parseDate(dateArg, now)),
               IF timeArg = NULL THEN NULL ELSE parseTime(Val(timeArg)))
        /\ UNCHANGED <<nextTaskId, templates, nextTemplateId, today, zone, procs, edits>>

\* tasks due <id> <date> [time]
CmdDue(id, dateArg, timeArg, now) ==
    LET \* the day number of a parsed date, null for null
        DayOf(date) ==
            IF date = NULL THEN NULL
            ELSE Some(DaysFromCivil(Val(date).y, Val(date).m, Val(date).d))
        run(date, time) ==
            LET exit == date = NULL \/ id \notin DOMAIN tasks
            IN  /\ tasks' = IF exit THEN tasks
                            ELSE Put(tasks, id, moveToDateRow(tasks[id], Val(date), time))
                /\ last' = [op |-> "due", id |-> id, dates |-> <<Some(dateArg)>>,
                            time |-> timeArg, now |-> now, exit |-> exit]
    IN  /\ run(DayOf(parseDate(dateArg, now)),
               IF timeArg = NULL THEN NULL ELSE parseTime(Val(timeArg)))
        /\ UNCHANGED <<nextTaskId, templates, nextTemplateId, today, zone, procs, edits>>

\* tasks recur add "Daily task" --every day [--start <date>] [--end <date>]
\* [--time <time>]
CmdRecurAdd(start, endStr, timeStr, now) ==
    LET civil == CivilFromDays(today)
        \* the day number of a parsed date, null for null
        DayOf(date) ==
            IF date = NULL THEN NULL
            ELSE Some(DaysFromCivil(Val(date).y, Val(date).m, Val(date).d))
        run(startDate, endDate, dueTime) ==
            LET exit == startDate = NULL \/ (endStr # NULL /\ endDate = NULL)
            IN  /\ exit \/ nextTemplateId <= MaxTemplates
                /\ templates' =
                       IF exit THEN templates
                       ELSE Put(templates, nextTemplateId,
                                createRecurringTemplateRow(
                                    [title          |-> "Daily task",
                                     recur_type     |-> "daily",
                                     recur_interval |-> 1,
                                     start_date     |-> Val(startDate),
                                     end_date       |-> endDate,
                                     due_time       |-> dueTime,
                                     priority       |-> 0]))
                /\ nextTemplateId' = IF exit THEN nextTemplateId ELSE nextTemplateId + 1
                /\ last' = [op |-> "recur add", id |-> nextTemplateId,
                            dates |-> <<start, endStr>>, time |-> timeStr, now |-> now,
                            exit |-> exit]
    IN  \* getFlagValue("--start") || today()
        /\ run(DayOf(parseDate(IF start # NULL THEN Val(start)
                               ELSE toString(civil.y) \o <<"-">>
                                        \o padStart(toString(civil.m)) \o <<"-">>
                                        \o padStart(toString(civil.d)),
                               now)),
               IF endStr = NULL THEN NULL ELSE DayOf(parseDate(Val(endStr), now)),
               IF timeStr = NULL THEN NULL ELSE parseTime(Val(timeStr)))
        /\ UNCHANGED <<tasks, nextTaskId, today, zone, procs, edits>>

\* tasks recur edit <id> [--time <time>]
CmdRecurEdit(id, timeStr) ==
    LET \* if (timeStr) updates.due_time = parseTime(timeStr)
        updates == IF timeStr = NULL THEN [f \in {} |-> NULL]
                   ELSE [due_time |-> parseTime(Val(timeStr))]
        exit    == id \notin DOMAIN templates
    IN  /\ templates' = IF exit THEN templates
                        ELSE Put(templates, id, updateTemplateRow(templates[id], updates))
        /\ last' = [op |-> "recur edit", id |-> id, dates |-> <<>>,
                    time |-> timeStr, now |-> today, exit |-> exit]
        /\ UNCHANGED <<tasks, nextTaskId, nextTemplateId, today, zone, procs, edits>>

NextCli ==
    LET \* 'tomorrow', and a word parseDate does not know
        dates == { <<"t", "o", "m", "o", "r", "r", "o", "w">>,
                   <<"s", "o", "m", "e", "d", "a", "y">> }
        \* '2pm', and a word parseTime does not know
        times == { <<"2", "p", "m">>, <<"n", "o", "o", "n">> }
        opt(S) == {NULL} \cup {Some(x) : x \in S}
        \* between the midnights of UTC and of the process's timezone the local
        \* date is a day behind west of UTC and a day ahead east of it
        nows  == {today} \cup (IF zone.base < 0 THEN {today - 1}
                               ELSE IF zone.base > 0 THEN {today + 1} ELSE {})
    IN  \/ \E d \in opt(dates), t \in opt(times), now \in nows : CmdAdd(d, t, now)
        \/ \E id \in OpIds(tasks, nextTaskId), d \in dates, t \in opt(times), now \in nows :
               CmdMove(id, d, t, now)
        \/ \E id \in OpIds(tasks, nextTaskId), d \in dates, t \in opt(times), now \in nows :
               CmdDue(id, d, t, now)
        \/ \E st \in opt(dates), en \in opt(dates), t \in opt(times), now \in nows :
               CmdRecurAdd(st, en, t, now)
        \/ \E id \in OpIds(templates, nextTemplateId), t \in opt(times) :
               CmdRecurEdit(id, t)

SpecCli == InitTasks /\ [][NextCli]_vars

-----------------------------------------------------------------------------
(* Properties of the materializer.                                         *)

\* the tasks a store holds for a template
TasksOf(store, templateId) ==
    {id \in DOMAIN store : store[id].recurring_id = Some(templateId)}

\* the template a generateTasksForTemplate call is about is stored and enabled
EnabledTemplate(id) == id \in DOMAIN templates /\ templates[id].enabled = 1

\* this step is a call of generateTasksForTemplate
GenerateStep == last'.op = "generateTasksForTemplate"

\* this step repeats the generateTasksForTemplate call that came right before it
RepeatedGenerateStep ==
    /\ last.op = "generateTasksForTemplate"
    /\ GenerateStep
    /\ last'.id = last.id
    /\ last'.days = last.days

\* C1: a generateTasksForTemplate call for an enabled template that comes right
\* after the same call (same template, same horizon, nothing in between)
\* returns the empty list and leaves the number of tasks of the template as
\* the first call left it.
C1_Idempotence ==
    [][(RepeatedGenerateStep /\ EnabledTemplate(last.id)) =>
           /\ last'.ret = <<>>
           /\ Cardinality(TasksOf(tasks', last.id)) = Cardinality(TasksOf(tasks, last.id))]_vars

\* a call for an enabled template returned nothing although its window holds
\* occurrences of the template: they were there before the call
C1_Witness ==
    /\ last.op = "generateTasksForTemplate"
    /\ EnabledTemplate(last.id)
    /\ last.ret = <<>>
    /\ \E id \in TasksOf(tasks, last.id) :
           /\ tasks[id].due_date # NULL
           /\ dateMatchesPattern(zone, Val(tasks[id].due_date), templates[last.id])
           /\ \E i \in 1..last.days :
                  getDateRange(zone, today, daysFromNow(last.days - 1))[i]
                      = Val(tasks[id].due_date)

\* C5: a generateTasksForTemplate call whose template id is unknown or whose
\* template is disabled returns the empty list and changes no task and no
\* template (last_generated included).
C5_NoOp ==
    [][(GenerateStep /\ ~EnabledTemplate(last'.id)) =>
           /\ last'.ret = <<>>
           /\ tasks' = tasks
           /\ nextTaskId' = nextTaskId
           /\ templates' = templates]_vars

\* a call for a disabled template whose window holds a matching date without
\* an occurrence returned nothing
C5_Witness ==
    /\ last.op = "generateTasksForTemplate"
    /\ last.id \in DOMAIN templates
    /\ templates[last.id].enabled = 0
    /\ last.ret = <<>>
    /\ \E i \in 1..last.days :
           LET date == getDateRange(zone, today, daysFromNow(last.days - 1))[i]
           IN  /\ dateMatchesPattern(zone, date, templates[last.id])
               /\ ~taskExistsForDate(tasks, last.id, date)

\* the dates of the occurrences process p has created
CreatedDates(p) ==
    {Val(tasks[procs[p].created[i]].due_date) : i \in 1..Len(procs[p].created)}

\* C2: two processes that run generateTasksForTemplate on the same template
\* at the same time never both create an occurrence for the same date.
C2_AtomicCheckAndInsert ==
    \A p, q \in DOMAIN procs :
        (p # q /\ procs[p].id = procs[q].id) => CreatedDates(p) \cap CreatedDates(q) = {}

\* two tasks of one template on one date
Duplicate(a, b) ==
    /\ a # b
    /\ tasks[a].recurring_id # NULL
    /\ tasks[a].recurring_id = tasks[b].recurring_id
    /\ tasks[a].due_date # NULL
    /\ tasks[a].due_date = tasks[b].due_date

\* C3: whatever sequence of generation calls and other operations has run,
\* the store holds at most one task for each (recurring_id, due_date) pair.
C3_NoDuplicates == \A a, b \in DOMAIN tasks : ~Duplicate(a, b)

\* the occurrences a generation call has just returned
Returned == {last'.ret[i] : i \in 1..Len(last'.ret)}

\* C4: every occurrence a generateTasksForTemplate(templateId, days) call
\* creates is dated d with start_date <= d, d <= end_date when end_date is
\* set, and today <= d <= today + days - 1.
C4_Bounds ==
    [][GenerateStep =>
           \A id \in Returned :
               LET d == Val(tasks'[id].due_date)
                   t == templates[last'.id]
               IN  /\ t.start_date <= d
                   /\ t.end_date # NULL => d <= Val(t.end_date)
                   /\ today <= d
                   /\ d <= today + last'.days - 1]_vars

-----------------------------------------------------------------------------
(* Properties of the task store and the bucket queries.                    *)

\* the dated-future bucket: getByDate of the task's own due date, when that
\* date is after today
InFuture(id) ==
    /\ tasks[id].due_date # NULL
    /\ Val(tasks[id].due_date) > today
    /\ id \in getByDate(Val(tasks[id].due_date))

\* how many of the six buckets return the task
BucketCount(id) ==
    (IF id \in getOverdue THEN 1 ELSE 0) + (IF id \in getToday THEN 1 ELSE 0)
    + (IF InFuture(id) THEN 1 ELSE 0) + (IF id \in getSoon THEN 1 ELSE 0)
    + (IF id \in getSomeday THEN 1 ELSE 0) + (IF id \in getInbox THEN 1 ELSE 0)

\* C6: every active task is returned by exactly one of the bucket queries
\* overdue, today, dated-future, soon, someday, inbox, and a completed task
\* by none, whatever the task operations have done and whatever today is.
C6_BucketPartition ==
    \A id \in DOMAIN tasks : BucketCount(id) = (IF Active(id) THEN 1 ELSE 0)

\* the last operation was op and found its task
Moved(op) == last.op = op /\ last.ret # NULL

\* C7: after moveToSoon the task has tag soon, not tag someday, and no due
\* date; after moveToSomeday it has tag someday, not tag soon, and no due
\* date; after moveToInbox it has neither tag and no due date.
C7_MovePostconditions ==
    /\ Moved("moveToSoon") =>
           /\ hasTag(tasks[last.id].tags, "soon")
           /\ ~hasTag(tasks[last.id].tags, "someday")
           /\ tasks[last.id].due_date = NULL
    /\ Moved("moveToSomeday") =>
           /\ hasTag(tasks[last.id].tags, "someday")
           /\ ~hasTag(tasks[last.id].tags, "soon")
           /\ tasks[last.id].due_date = NULL
    /\ Moved("moveToInbox") =>
           /\ ~hasTag(tasks[last.id].tags, "soon")
           /\ ~hasTag(tasks[last.id].tags, "someday")
           /\ tasks[last.id].due_date = NULL

\* moveToSoon has run on a task that kept another tag of its own
C7_Witness ==
    /\ Moved("moveToSoon")
    /\ hasTag(tasks[last.id].tags, "soon")
    /\ Len(parseTagsFromStorage(tasks[last.id].tags)) > 1

\* C8: no task has a due date together with the tag soon or the tag someday.
C8_NoDueDateWithReservedTag ==
    \A id \in DOMAIN tasks :
        tasks[id].due_date # NULL =>
            ~hasTag(tasks[id].tags, "soon") /\ ~hasTag(tasks[id].tags, "someday")

\* C9: no task carries both the tag soon and the tag someday.
C9_ReservedTagsExclusive ==
    \A id \in DOMAIN tasks :
        ~(hasTag(tasks[id].tags, "soon") /\ hasTag(tasks[id].tags, "someday"))

-----------------------------------------------------------------------------
(* Properties of the recurrence rules.                                     *)

\* this step puts a date within [start_date, end_date] to dateMatchesPattern
\* for a template of the given type
MatchStep(type) ==
    /\ last'.op = "dateMatchesPattern"
    /\ templates[last'.id].recur_type = type
    /\ templates[last'.id].start_date <= last'.ret[1]
    /\ templates[last'.id].end_date # NULL =>
           last'.ret[1] <= Val(templates[last'.id].end_date)

\* this step generates, with the default horizon, for an enabled daily template
\* of interval 1 that starts today and has no occurrence yet
DailyScenarioStep ==
    /\ GenerateStep
    /\ last'.days = DefaultDays
    /\ EnabledTemplate(last'.id)
    /\ templates[last'.id].recur_type = "daily"
    /\ templates[last'.id].recur_interval = 1
    /\ templates[last'.id].start_date = today
    /\ templates[last'.id].end_date = NULL
    /\ TasksOf(tasks, last'.id) = {}

\* C10: for a daily template with interval N >= 1, a date d within
\* [start_date, end_date] matches iff the number of days from start_date to d
\* is divisible by N; and a daily template of interval 1 that starts today,
\* generated with horizon 14 on a store without occurrences of it, yields
\* exactly 14 occurrences dated today, today + 1, ..., today + 13 in this order.
C10_DailyRule ==
    [][/\ (MatchStep("daily") /\ templates[last'.id].recur_interval >= 1) =>
              (last'.ret[2] <=>
                   (last'.ret[1] - templates[last'.id].start_date)
                       % templates[last'.id].recur_interval = 0)
       /\ DailyScenarioStep =>
              /\ Len(last'.ret) = DefaultDays
              /\ \A i \in 1..Len(last'.ret) :
                     tasks'[last'.ret[i]].due_date = Some(today + i - 1)]_vars

\* the weekdays a recur_days column lists
ListedDays(recur_days) ==
    {DAY_MAP[lowerTrim(recur_days[i])] :
        i \in {j \in 1..Len(recur_days) : lowerTrim(recur_days[j]) \in DOMAIN DAY_MAP}}

\* this step generates for a stored template of the given type
GenerateStepOf(type) ==
    /\ GenerateStep
    /\ last'.id \in DOMAIN templates
    /\ templates[last'.id].recur_type = type

\* the due dates of the occurrences the step created
CreatedDue == {Val(tasks'[last'.ret[i]].due_date) : i \in 1..Len(last'.ret)}

\* C11: for a weekly template with interval N >= 1, a date d within
\* [start_date, end_date] matches iff (recur_days is unset or the weekday of d
\* is listed) and (N = 1 or the whole number of weeks from start_date to d is
\* divisible by N); and every occurrence generated from a template with
\* recur_days = mon,wed,fri falls on a Monday, Wednesday or Friday.
C11_WeeklyRule ==
    [][/\ (MatchStep("weekly") /\ templates[last'.id].recur_interval >= 1) =>
              (last'.ret[2] <=>
                   /\ \/ templates[last'.id].recur_days = NULL
                      \/ getDay(last'.ret[1]) \in ListedDays(templates[last'.id].recur_days)
                   /\ \/ templates[last'.id].recur_interval = 1
                      \/ ((last'.ret[1] - templates[last'.id].start_date) \div 7)
                             % templates[last'.id].recur_interval = 0)
       /\ (GenerateStepOf("weekly")
              /\ templates[last'.id].recur_days = <<"mon", "wed", "fri">>) =>
              CreatedDue \subseteq {d \in CreatedDue : getDay(d) \in {1, 3, 5}}]_vars

\* this step generates, with the default horizon, for an enabled weekly
\* template of interval 1 and recur_days mon,wed,fri that starts on a Monday
\* and has no occurrence yet
WeeklyScenarioStep ==
    /\ GenerateStepOf("weekly")
    /\ last'.days = DefaultDays
    /\ templates[last'.id].recur_interval = 1
    /\ templates[last'.id].recur_days = <<"mon", "wed", "fri">>
    /\ getDay(templates[last'.id].start_date) = 1
    /\ TasksOf(tasks, last'.id) = {}

\* the step created exactly 6 occurrences, all on Monday, Wednesday or Friday
SixOnMonWedFri ==
    /\ Len(last'.ret) = 6
    /\ Cardinality(TasksOf(tasks', last'.id)) = 6
    /\ \A d \in CreatedDue : getDay(d) \in {1, 3, 5}

\* C12 as stated: a weekly template with interval 1, recur_days mon,wed,fri
\* and a Monday start_date, generated with horizon 14 on a store without
\* occurrences of it, gets exactly 6 occurrences, all on Mon/Wed/Fri.
C12_WeeklyScenario_AsStated ==
    [][WeeklyScenarioStep => SixOnMonWedFri]_vars

\* C12: an enabled weekly template with interval 1, recur_days mon,wed,fri, no
\* end_date and a Monday start_date not later than today, generated with
\* horizon 14 on a store without occurrences of it, gets exactly 6
\* occurrences, all on Mon/Wed/Fri.
C12_WeeklyScenario ==
    [][(WeeklyScenarioStep
          /\ EnabledTemplate(last'.id)
          /\ templates[last'.id].end_date = NULL
          /\ templates[last'.id].start_date <= today) => SixOnMonWedFri]_vars

\* the scenario has run east of UTC on a Monday, the template starting that day
C12_Witness ==
    /\ last.op = "generateTasksForTemplate"
    /\ last.days = DefaultDays
    /\ Len(last.ret) = 6
    /\ zone = Berlin
    /\ templates[1].recur_type = "weekly"
    /\ templates[1].recur_days = <<"mon", "wed", "fri">>
    /\ templates[1].recur_interval = 1
    /\ templates[1].end_date = NULL
    /\ templates[1].start_date = today
    /\ getDay(today) = 1

\* the day of the month a monthly template recurs on
TargetDay(t) ==
    IF t.recur_day_of_month # NULL THEN Val(t.recur_day_of_month)
    ELSE CivilFromDays(t.start_date).d

\* months from the month of date a to the month of date b
MonthDistance(a, b) ==
    (CivilFromDays(b).y - CivilFromDays(a).y) * 12
        + (CivilFromDays(b).m - CivilFromDays(a).m)

\* C13: for a monthly template with interval N >= 1, a date d within
\* [start_date, end_date] matches iff its day of the month is
\* recur_day_of_month (start_date's when unset) and (N = 1 or the month
\* distance from start_date to d is divisible by N); the last day of a month
\* shorter than the target day does not match; and every occurrence generated
\* from a template with recur_day_of_month = 15 falls on the 15th.
C13_MonthlyRule ==
    [][/\ (MatchStep("monthly") /\ templates[last'.id].recur_interval >= 1) =>
              /\ last'.ret[2] <=>
                     /\ CivilFromDays(last'.ret[1]).d = TargetDay(templates[last'.id])
                     /\ \/ templates[last'.id].recur_interval = 1
                        \/ MonthDistance(templates[last'.id].start_date, last'.ret[1])
                               % templates[last'.id].recur_interval = 0
              /\ CivilFromDays(last'.ret[1]).d < TargetDay(templates[last'.id]) =>
                     ~last'.ret[2]
       /\ (GenerateStepOf("monthly")
              /\ templates[last'.id].recur_day_of_month = Some(15)) =>
              \A d \in CreatedDue : CivilFromDays(d).d = 15]_vars

\* a template on the 31st has been put to 30 April
C13_Witness ==
    /\ last.op = "dateMatchesPattern"
    /\ templates[last.id].recur_type = "monthly"
    /\ TargetDay(templates[last.id]) = 31
    /\ last.ret = <<DaysFromCivil(2026, 4, 30), FALSE>>

LeapYear(y) == y % 4 = 0 /\ (y % 100 # 0 \/ y % 400 = 0)

\* C14: for a yearly template with interval N >= 1, a date d within
\* [start_date, end_date] matches iff its month and day of the month are those
\* of start_date and (N = 1 or the year distance from start_date to d is
\* divisible by N); a template starting on 29 February matches in leap years
\* only.
C14_YearlyRule ==
    [][(MatchStep("yearly") /\ templates[last'.id].recur_interval >= 1) =>
           /\ last'.ret[2] <=>
                  /\ CivilFromDays(last'.ret[1]).m
                         = CivilFromDays(templates[last'.id].start_date).m
                  /\ CivilFromDays(last'.ret[1]).d
                         = CivilFromDays(templates[last'.id].start_date).d
                  /\ \/ templates[last'.id].recur_interval = 1
                     \/ (CivilFromDays(last'.ret[1]).y
                            - CivilFromDays(templates[last'.id].start_date).y)
                            % templates[last'.id].recur_interval = 0
           /\ (templates[last'.id].start_date = DaysFromCivil(2024, 2, 29)
                  /\ last'.ret[2]) =>
                  LeapYear(CivilFromDays(last'.ret[1]).y)]_vars

\* a template that started on 29 February 2024 has been put to 28 February
\* 2025
C14_Witness ==
    /\ last.op = "dateMatchesPattern"
    /\ templates[last.id].recur_type = "yearly"
    /\ templates[last.id].start_date = DaysFromCivil(2024, 2, 29)
    /\ last.ret = <<DaysFromCivil(2025, 2, 28), FALSE>>

-----------------------------------------------------------------------------
(* Properties of the generator's bookkeeping and of the template store.    *)

\* the greatest element of a non-empty set of dates
Latest(S) == CHOOSE d \in S : \A e \in S : e <= d

\* C15: after generateTasksForTemplate the template's last_generated is the
\* latest due date among the occurrences the call created, if it created any;
\* if it created none, the template store is what it was.
C15_LastGenerated ==
    [][GenerateStep =>
          IF last'.ret # <<>>
          THEN templates'[last'.id].last_generated = Some(Latest(CreatedDue))
          ELSE templates' = templates]_vars

\* a call has created two occurrences and left the later date in last_generated
C15_Witness ==
    /\ last.op = "generateTasksForTemplate"
    /\ Len(last.ret) = 2
    /\ tasks[last.ret[1]].due_date # tasks[last.ret[2]].due_date
    /\ templates[last.id].last_generated = tasks[last.ret[2]].due_date

\* the enabled templates of the store
EnabledIds == {id \in DOMAIN templates : templates[id].enabled = 1}

\* the tasks the step inserted for a template, and their due dates
NewTasksOf(templateId) == TasksOf(tasks', templateId) \ DOMAIN tasks
NewDueOf(templateId) == {tasks'[i].due_date : i \in NewTasksOf(templateId)}

\* what generateTasksForTemplate(templateId, days) alone returns on the store
\* the step started from
Alone(templateId, days) ==
    generateTasksForTemplate(zone, Database, templateId, days)

RECURSIVE SumCreatedAlone(_, _)
SumCreatedAlone(ids, days) ==
    IF ids = {} THEN 0
    ELSE LET id == CHOOSE x \in ids : TRUE
         IN  Len(Alone(id, days).created) + SumCreatedAlone(ids \ {id}, days)

\* two templates with the same rule and the same copied fields
SameRule(a, b) ==
    [templates[a] EXCEPT !.last_generated = NULL]
        = [templates[b] EXCEPT !.last_generated = NULL]

\* C16: generateAllTasks(days) reports as templatesProcessed the number of
\* enabled templates and as tasksCreated the number of tasks it inserted, which
\* is the sum over the enabled templates of what generateTasksForTemplate
\* creates for each; every enabled template gets the occurrences its own call
\* would create, a disabled template gets none, and two enabled templates with
\* the same rule and no occurrences get occurrences of their own for the same
\* dates.
C16_GenerateAllCounts ==
    [][last'.op = "generateAllTasks" =>
          /\ last'.ret[1] = Cardinality(EnabledIds)
          /\ last'.ret[2] = Cardinality(DOMAIN tasks' \ DOMAIN tasks)
          /\ last'.ret[2] = SumCreatedAlone(EnabledIds, last'.days)
          /\ \A i \in DOMAIN tasks : tasks'[i] = tasks[i]
          /\ \A id \in EnabledIds :
                 /\ Cardinality(NewTasksOf(id)) = Len(Alone(id, last'.days).created)
                 /\ NewDueOf(id) =
                        {Alone(id, last'.days).db.tasks[i].due_date :
                            i \in TasksOf(Alone(id, last'.days).db.tasks, id) \ DOMAIN tasks}
          /\ \A id \in DOMAIN templates \ EnabledIds : NewTasksOf(id) = {}
          /\ \A a, b \in EnabledIds :
                 (a # b /\ SameRule(a, b)
                    /\ TasksOf(tasks, a) = {} /\ TasksOf(tasks, b) = {}) =>
                     /\ NewDueOf(a) = NewDueOf(b)
                     /\ NewTasksOf(a) \cap NewTasksOf(b) = {}
                     /\ Cardinality(NewTasksOf(a)) = Cardinality(NewTasksOf(b))]_vars

\* generateAllTasks has run over one enabled and one disabled template of the
\* same rule: one processed, and only the enabled one has occurrences
C16_Witness ==
    /\ last.op = "generateAllTasks"
    /\ last.ret[1] = 1
    /\ last.ret[2] >= 1
    /\ \E a, b \in DOMAIN templates :
           /\ templates[a].enabled = 1 /\ templates[b].enabled = 0
           /\ templates[a].title = templates[b].title
           /\ Cardinality(TasksOf(tasks, a)) = last.ret[2]
           /\ TasksOf(tasks, b) = {}

\* C17: when generation for one enabled template fails inside
\* generateAllTasks, every other enabled template still gets the occurrences
\* its own call would create, and no task stored before is lost or changed.
C17_FailureIsolation ==
    [][last'.op = "generateAllTasksThrows" =>
          /\ \A i \in DOMAIN tasks : i \in DOMAIN tasks' /\ tasks'[i] = tasks[i]
          /\ \A id \in EnabledIds \ {last'.id} :
                 Cardinality(NewTasksOf(id)) = Len(Alone(id, last'.days).created)]_vars

\* C18: deleteTemplate removes the template row and nothing else: every task
\* stays stored with its fields, recurring_id included, and every bucket holds
\* what it held; it returns true iff the row existed; and a later
\* generateTasksForTemplate for an id without a row creates nothing.
C18_DeleteDoesNotCascade ==
    [][/\ last'.op = "deleteTemplate" =>
              /\ tasks' = tasks
              /\ DOMAIN templates' = DOMAIN templates \ {last'.id}
              /\ last'.ret = Some(last'.id \in DOMAIN templates)
              /\ getOverdue' = getOverdue /\ getToday' = getToday
              /\ getSoon' = getSoon /\ getSomeday' = getSomeday
              /\ getInbox' = getInbox /\ getCompleted' = getCompleted
              /\ \A i \in DOMAIN tasks : InFuture(i)' = InFuture(i)
       /\ (GenerateStep /\ last'.id \notin DOMAIN templates) =>
              /\ last'.ret = <<>>
              /\ tasks' = tasks]_vars

\* a template with a stored occurrence has been deleted
C18_Witness ==
    /\ last.op = "deleteTemplate"
    /\ last.ret = Some(TRUE)
    /\ last.id \notin DOMAIN templates
    /\ TasksOf(tasks, last.id) # {}

\* the elements of a sequence
Range(seq) == {seq[i] : i \in 1..Len(seq)}

\* the task row is an occurrence of the template row t with id templateId
CopyOf(row, t, templateId) ==
    /\ row.title = t.title
    /\ row.description = t.description
    /\ row.due_time = t.due_time
    /\ row.tags = t.tags
    /\ row.project = t.project
    /\ row.priority = t.priority
    /\ row.recurring_id = Some(templateId)
    /\ row.completed_at = NULL

\* C19: every task a generation call inserts carries the title, description,
\* due_time, tags, project and priority the template had at the call, the
\* template's id as recurring_id, no completed_at, and as due_date a date of
\* the call's window that matches the template; generateTasksForTemplate
\* inserts for its own template only.
C19_OccurrenceCopiesTemplate ==
    [][last'.op \in {"generateTasksForTemplate", "generateAllTasks"} =>
          \A i \in DOMAIN tasks' \ DOMAIN tasks :
              /\ tasks'[i].recurring_id # NULL
              /\ Val(tasks'[i].recurring_id) \in DOMAIN templates
              /\ last'.op = "generateTasksForTemplate" =>
                     tasks'[i].recurring_id = Some(last'.id)
              /\ CopyOf(tasks'[i], templates[Val(tasks'[i].recurring_id)],
                        Val(tasks'[i].recurring_id))
              /\ tasks'[i].due_date # NULL
              /\ Val(tasks'[i].due_date)
                     \in Range(getDateRange(zone, today, daysFromNow(last'.days - 1)))
              /\ dateMatchesPattern(zone, Val(tasks'[i].due_date),
                                    templates[Val(tasks'[i].recurring_id)])]_vars

\* an occurrence of a template with a description, a due time, a tag, a
\* project and a priority has been generated
C19_Witness ==
    /\ last.op = "generateTasksForTemplate"
    /\ last.ret # <<>>
    /\ tasks[last.ret[1]].recurring_id = Some(last.id)
    /\ tasks[last.ret[1]].description = Some("note")
    /\ tasks[last.ret[1]].due_time = Some("09:00")
    /\ tasks[last.ret[1]].tags = <<"soon">>
    /\ tasks[last.ret[1]].project = Some("home")
    /\ tasks[last.ret[1]].priority = 2
    /\ tasks[last.ret[1]].completed_at = NULL

\* C20: on every store and for every task id skipTask and deleteTask return
\* the same boolean and leave the same tasks table; a call of either removes
\* exactly the row of that id, returns true iff there was one, and leaves
\* every other task and every template as it was.
C20_SkipIsDelete ==
    [][/\ \A id \in 1..nextTaskId : skipTask(tasks, id) = deleteTask(tasks, id)
       /\ last'.op \in {"skipTask", "deleteTask"} =>
              /\ last'.ret = Some(last'.id \in DOMAIN tasks)
              /\ DOMAIN tasks' = DOMAIN tasks \ {last'.id}
              /\ \A i \in DOMAIN tasks' : tasks'[i] = tasks[i]
              /\ templates' = templates]_vars

\* skipTask has removed one of two stored tasks; the other, an occurrence, and
\* the template stay
C20_Witness ==
    /\ last.op = "skipTask"
    /\ last.ret = Some(TRUE)
    /\ last.id \notin DOMAIN tasks
    /\ last.id < nextTaskId
    /\ \E i \in DOMAIN tasks : tasks[i].recurring_id # NULL
    /\ \A i \in DOMAIN tasks : tasks[i].recurring_id # NULL
    /\ nextTaskId = 3
    /\ templates # Empty

-----------------------------------------------------------------------------
(* Properties of the error handling.                                       *)

TaskOps ==
    {"getTaskById", "updateTask", "completeTask", "reopenTask", "moveToDate",
     "moveToSoon", "moveToSomeday", "moveToInbox"}

TemplateOps == {"getTemplateById", "updateTemplate", "enableTemplate", "disableTemplate"}

\* C22: called with an id of no stored row, getTaskById, updateTask,
\* completeTask, reopenTask, the four moves, getTemplateById, updateTemplate,
\* enableTemplate and disableTemplate return null, deleteTask, skipTask and
\* deleteTemplate return false, and both tables stay as they were.
C22_NotFound ==
    [][/\ (last'.op \in TaskOps /\ last'.id \notin DOMAIN tasks) =>
              last'.ret = NULL /\ tasks' = tasks /\ templates' = templates
       /\ (last'.op \in TemplateOps /\ last'.id \notin DOMAIN templates) =>
              last'.ret = NULL /\ tasks' = tasks /\ templates' = templates
       /\ (last'.op \in {"deleteTask", "skipTask"} /\ last'.id \notin DOMAIN tasks) =>
              last'.ret = Some(FALSE) /\ tasks' = tasks /\ templates' = templates
       /\ (last'.op = "deleteTemplate" /\ last'.id \notin DOMAIN templates) =>
              last'.ret = Some(FALSE) /\ tasks' = tasks /\ templates' = templates]_vars

\* moveToDate has been called with an id of no row on a store that holds a
\* task and a template
C22_Witness ==
    /\ last.op = "moveToDate"
    /\ last.id \notin DOMAIN tasks
    /\ last.ret = NULL
    /\ tasks # Empty
    /\ templates # Empty

-----------------------------------------------------------------------------
(* Properties of generation over time.                                     *)

\* the store holds an occurrence of the template for the date
HasOccurrence(store, templateId, date) ==
    \E i \in TasksOf(store, templateId) : store[i].due_date = Some(date)

\* C27: when generateTasksForTemplate(id, days) returns for an enabled
\* template, every date of today .. today + days - 1 that matches the pattern
\* has an occurrence of the template, whatever last_generated held and
\* whatever was skipped, moved or left out before.
C27_Completeness ==
    [][(GenerateStep /\ EnabledTemplate(last'.id)) =>
          \A d \in today..daysFromNow(last'.days - 1) :
              dateMatchesPattern(zone, d, templates[last'.id]) =>
                  HasOccurrence(tasks', last'.id, d)]_vars

\* C28: generateTasksForTemplate creates no occurrence for a date for which
\* the store holds an occurrence of the template, completed or not: completing
\* an occurrence, and reopening it, does not free its date.
C28_CompletedKeepsSlot ==
    [][GenerateStep =>
          \A i \in TasksOf(tasks, last'.id) :
              \A j \in NewTasksOf(last'.id) : tasks'[j].due_date # tasks[i].due_date]_vars

\* a generation over a window that holds the date of a completed occurrence
\* has returned without creating one for that date
C28_Witness ==
    /\ last.op = "generateTasksForTemplate"
    /\ EnabledTemplate(last.id)
    /\ zone = UTC
    /\ \E i \in TasksOf(tasks, last.id) :
           /\ tasks[i].completed_at # NULL
           /\ tasks[i].due_date = Some(today)
           /\ i \notin Range(last.ret)
           /\ dateMatchesPattern(zone, today, templates[last.id])
           /\ \A j \in TasksOf(tasks, last.id) \ {i} : tasks[j].due_date # tasks[i].due_date

\* a template row without its last_generated
Rule(t) == [t EXCEPT !.last_generated = NULL]

\* C29: generateTasksForTemplate and generateAllTasks leave every task that
\* was stored as it was, add and remove no template, change no template column
\* but last_generated, change that only for a template they created an
\* occurrence for, and leave disabled templates as they were.
C29_GenerationOnlyAdds ==
    [][last'.op \in {"generateTasksForTemplate", "generateAllTasks"} =>
          /\ \A i \in DOMAIN tasks : i \in DOMAIN tasks' /\ tasks'[i] = tasks[i]
          /\ DOMAIN templates' = DOMAIN templates
          /\ \A t \in DOMAIN templates :
                 /\ Rule(templates'[t]) = Rule(templates[t])
                 /\ templates'[t] # templates[t] => NewTasksOf(t) # {}
                 /\ templates[t].enabled = 0 => templates'[t] = templates[t]]_vars

\* generateAllTasks has created an occurrence on a store that holds a task no
\* template generated
C29_Witness ==
    /\ last.op = "generateAllTasks"
    /\ last.ret[2] >= 1
    /\ \E i \in DOMAIN tasks : tasks[i].recurring_id = NULL
    /\ \E i \in DOMAIN tasks : tasks[i].recurring_id # NULL

\* C30: no step moves the last_generated of a stored template to an earlier
\* date, or back to null.
C30_MarkerMonotonic ==
    [][\A t \in DOMAIN templates \cap DOMAIN templates' :
          templates[t].last_generated # NULL =>
              /\ templates'[t].last_generated # NULL
              /\ Val(templates'[t].last_generated) >= Val(templates[t].last_generated)]_vars

-----------------------------------------------------------------------------
(* Properties of the statistics.                                           *)

\* C26: in every state getStats has total = active + completed, active the
\* number of tasks without completed_at, overdue, dueToday, inbox, soon and
\* someday the sizes of the bucket queries' results, and these five sizes
\* plus the number of active tasks due after today sum to active.
C26_StatsConsistent ==
    /\ getStats.total = getStats.active + getStats.completed
    /\ getStats.active = Cardinality(getAllActive)
    /\ getStats.overdue = Cardinality(getOverdue)
    /\ getStats.dueToday = Cardinality(getToday)
    /\ getStats.inbox = Cardinality(getInbox)
    /\ getStats.soon = Cardinality(getSoon)
    /\ getStats.someday = Cardinality(getSomeday)
    /\ getStats.overdue + getStats.dueToday + getStats.inbox + getStats.soon
           + getStats.someday + Cardinality({id \in DOMAIN tasks : InFuture(id)})
           = getStats.active

-----------------------------------------------------------------------------
(* Properties of the parsers.                                               *)

\* the weekdays (0 = Sunday) a word names, in full or by its first three letters
WeekdaysNamed(w) == {i \in 0..6 : w \in {dayNames[i + 1], SubSeq(dayNames[i + 1], 1, 3)}}

\* the days from today to the next day of weekday i after it: 1..7
DaysAhead(i) == ((i - getDay(today) + 6) % 7) + 1

\* C24: parseDate on a weekday name, in full (monday..sunday) or as a 3-letter
\* abbreviation (mon..sun), in any case, returns the date of the next day of
\* that weekday strictly after today, 7 days out when the name is today's
\* weekday; 'next <weekday>' returns the date 7 days after that one.
C24_ParseWeekday ==
    last.op = "parseDate" =>
        LET words == SelectSeq(split(trim(lower(last.input)), " "), LAMBDA w : w # <<>>)
        IN  /\ Len(words) = 1 =>
                \A i \in WeekdaysNamed(words[1]) :
                    last.ret = Some(CivilFromDays(today + DaysAhead(i)))
            /\ Len(words) = 2 /\ words[1] = <<"n", "e", "x", "t">> =>
                \A i \in WeekdaysNamed(words[2]) :
                    last.ret = Some(CivilFromDays(today + DaysAhead(i) + 7))

\* a string 'HH:MM' that names a time of day
TimeOfDay(s) ==
    /\ Len(s) = 5
    /\ s[3] = ":"
    /\ AllDigits(SubSeq(s, 1, 2)) /\ parseInt(SubSeq(s, 1, 2)) \in 0..23
    /\ AllDigits(SubSeq(s, 4, 5)) /\ parseInt(SubSeq(s, 4, 5)) \in 0..59

\* the two digits of a number below 100
TwoDigits(n) == <<Digits[(n \div 10) + 1], Digits[(n % 10) + 1]>>

\* the reading of a time string: whether it has one of the accepted forms,
\* H:MM or HH:MM, or H[:MM] before am or pm, and the times 'HH:MM' it stands
\* for, on the 24-hour clock or on the 12-hour clock
Reading(s) ==
    LET low    == lower(s)
        n      == Len(low)
        period == IF n >= 2 /\ SubSeq(low, n - 1, n) \in {<<"a", "m">>, <<"p", "m">>}
                  THEN SubSeq(low, n - 1, n) ELSE <<>>
        parts  == split(SubSeq(low, 1, n - Len(period)), ":")
        formed == /\ Len(parts) \in {1, 2}
                  /\ period = <<>> => Len(parts) = 2
                  /\ AllDigits(parts[1]) /\ Len(parts[1]) <= 2
                  /\ Len(parts) = 2 => AllDigits(parts[2]) /\ Len(parts[2]) = 2
        h      == parseInt(parts[1])
        m      == IF Len(parts) = 2 THEN parseInt(parts[2]) ELSE 0
    IN  [formed |-> formed,
         times  |-> IF ~formed \/ m > 59 THEN {}
                    ELSE IF period = <<>>
                    THEN IF h <= 23 THEN {TwoDigits(h) \o <<":">> \o TwoDigits(m)} ELSE {}
                    ELSE IF h \in 1..12
                    THEN {TwoDigits((h % 12) + (IF period = <<"p", "m">> THEN 12 ELSE 0))
                              \o <<":">> \o TwoDigits(m)}
                    ELSE {}]

\* C25: parseTime accepts 24-hour H:MM / HH:MM and 12-hour H[:MM](am|pm) and
\* returns the time as HH:MM, with 12am mapped to 00:00, 12pm kept as 12:00 and
\* the other pm hours shifted by 12; on every other input it returns null, so
\* every result that is not null is a time of day, hour 0..23 and minute 0..59.
\* (Where a blank may stand is not stated: the first two parts are about the
\* strings without one.)
C25_ParseTime ==
    last.op = "parseTime" =>
        /\ (\A i \in 1..Len(last.input) : last.input[i] # " ") =>
               /\ \A t \in Reading(last.input).times : last.ret = Some(t)
               /\ ~Reading(last.input).formed => last.ret = NULL
        /\ last.ret # NULL => TimeOfDay(Val(last.ret))

-----------------------------------------------------------------------------
(* Properties of the template store's validation.                           *)

\* C23: in every state that createRecurringTemplate and updateTemplate calls
\* reach, whatever integer they are given as recur_interval, 0 included, every
\* stored template has recur_interval >= 1: an invalid interval is rejected
\* before anything is written.
C23_IntervalInvariant ==
    \A t \in DOMAIN templates : templates[t].recur_interval >= 1

-----------------------------------------------------------------------------
(* Properties of the commands' error handling.                              *)

\* a command was given a date or a time that parseDate or parseTime cannot parse
Unparseable(c) ==
    \/ \E i \in 1..Len(c.dates) :
           c.dates[i] # NULL /\ parseDate(Val(c.dates[i]), c.now) = NULL
    \/ c.time # NULL /\ parseTime(Val(c.time)) = NULL

\* C21: a command (add, move --date/--time, due, recur add --start/--end/--time,
\* recur edit --time) given a date or time string that parseDate or parseTime
\* cannot parse is aborted with an error and leaves the store as it was: no task
\* and no template is created or modified.
C21_ParseErrorAborts ==
    [][last'.op \in {"add", "move", "due", "recur add", "recur edit"}
           /\ Unparseable(last') =>
               /\ last'.exit
               /\ tasks' = tasks /\ nextTaskId' = nextTaskId
               /\ templates' = templates /\ nextTemplateId' = nextTemplateId]_vars

=============================================================================
